---- MODULE Spec2Model ----
(***************************************************************************)
(* Workflow Action Execution Core of TriOps: the signature verifier        *)
(* (middleware/hubspotSignature.js), the action routes (routes/actions.js) *)
(* and the webhook dispatcher with its SSRF guard and retry loop           *)
(* (services/encryption.js, second half).                                  *)
(*                                                                         *)
(* Strings are sequences of one-character strings, so that the `+` of the  *)
(* source is sequence concatenation and parseInt is computed digit by      *)
(* digit.  A digest is the record of its algorithm, key and message: two   *)
(* digests are equal exactly when these are (no collisions).               *)
(***************************************************************************)
EXTENDS Integers, Sequences, FiniteSets, TLC

VARIABLES
    \* ---- verifySignatureV3 called on its own (SpecSig)
    svPc,        \* "start" | "signed" | "verified"
    svSigned,    \* what the sender signed: secret, method, uri, body, timestamp
    svArgs,      \* the arguments of the verifySignatureV3 call
    svNow,       \* Date.now() at the call
    svResult,    \* its return value { valid, reason }
    \* ---- executeWebhook (SpecWebhook, and inside the webhook route in Spec)
    ewPc,        \* "off" | "validate" | "dns" | "attempt" | "sleep" | "returned"
    ewConfig,    \* config: the url template (method, headers and body are not read by the guard)
    ewContext,   \* context: the object the templates read
    ewRetry,     \* retryConfig as passed by the caller
    ewAddresses, \* addresses: what dnsLookupAll answered inside validateResolvedIP
    ewDnsCheck,  \* dnsCheck: what validateResolvedIP returned
    ewResolved,  \* resolvedAddresses: the pinned addresses, <<>> for null
    ewAttempt,   \* attempt: the loop counter
    ewAttempts,  \* attempts: one entry per executeSingleRequest call of the loop
    ewLast,      \* lastResult
    ewDelay,     \* the delay of the last backoff sleep
    ewResult,    \* the value executeWebhook returns
    sysDns,      \* what the system resolver answers now
    urlChecks,   \* number of validateWebhookUrl calls
    dnsQueries,  \* number of dns.lookup calls to the system resolver
    connects,    \* the connections opened, in order: address, hop, how it was found
    ewElapsed,   \* Date.now() - totalStartTime, in ms
    \* ---- one request to /v1/actions/* (Spec, SpecAuth)
    pc,          \* "off" | "received" | "handler" | "webhook" | "done"
    env,         \* process.env: NODE_ENV, SKIP_SIGNATURE_VERIFICATION
    req,         \* the request: route, portalId, signature headers, origin
    inputFields, \* req.body.inputFields as the handler reads them
    portal,      \* what Portal.findOne gave: "none" | "missing" | "inactive" | "active"
    hResult,     \* the handler's `result`
    res,         \* the response: status and outputFields
    executions,  \* the Execution documents stored by this request
    usageWrites, \* number of Usage.recordExecution upserts done
    codeRuns,    \* number of executeCode calls
    \* ---- the SSRF guard applied to one address (SpecGuard)
    gdPc,        \* "start" | "checked"
    gdAddr,      \* the address
    gdUrlVerdict, \* validateWebhookUrl of a url whose host is the address literal
    gdDnsVerdict, \* isBlockedIP of the address as a DNS result
    \* ---- Usage.recordExecution calls of one portal and day (SpecUsage)
    usDoc,       \* the Usage document, or NoUsageDoc before the first upsert
    usCalls,     \* the executionData of the calls done, in order
    \* ---- concurrent code requests using one snippet (SpecSnippet)
    snCount,     \* executionCount of the snippet in the database
    snPc,        \* per request: "start" | "loaded" | "done"
    snLoaded,    \* per request: executionCount of its snippetDoc
    \* ---- secret resolution of one code request (SpecSecrets)
    scPc,        \* where the handler is, and the pending usage update
    scCode,      \* the source text
    scDocs,      \* the Secret documents of the portal
    scDecrypted, \* names of the secrets decrypt() was called for
    scWorker,    \* the `secrets` object passed to executeCode
    scResult,    \* what executeCode resolved with
    scRecord,    \* the Execution document of the code action
    \* ---- one executeCode call and its worker (SpecExec)
    exClock,     \* time since the call, in ticks of 500 ms
    exTimeout,   \* options.timeout, in ticks
    exWorker,    \* "off" | "running" | "posted" | "exited" | "terminated"
    exInbox,     \* events of the worker not yet delivered to the host
    exListening, \* the listeners are attached and the timer is armed
    exResolved,  \* the flag `resolved`
    exResult,    \* what the promise resolved with
    exHandled,   \* the callback that resolved: "none" | "timer" | "message" | "error" | "exit"
    \* ---- secret creation requests of one portal (SpecCreate)
    crStored,    \* names of the Secret documents of the portal
    crPc,        \* per request: where its handler is
    crSeen,      \* per request: currentCount as it read it
    \* ---- a pure function applied to one input
    pfPc,        \* "off" | "ready" | "done"
    pfIn,        \* the argument
    pfOut,       \* the value returned
    \* ---- requireAuth and the lastActivityAt of one portal (SpecActivity)
    raClock,     \* the time, in minutes
    raStored,    \* lastActivityAt of the stored portal document
    raPc,        \* per request: "start" | "loaded" | "done"
    raRead,      \* per request: lastActivityAt of the document findOne returned
    raWrites,    \* the values written to lastActivityAt, in order
    \* ---- the sandbox worker (SpecWorker)
    wkPc,        \* "off" | "running" | "posted"
    wkConsole,   \* consoleOutput: the levels of its entries
    wkCalls,     \* calls the user code made to console and setTimeout
    wkTimers,    \* per timer id: "none" | "pending" | "fired" | "cancelled"
    wkActive,    \* activeTimers
    wkMessage    \* the message posted to the parent

vars == <<svPc, svSigned, svArgs, svNow, svResult,
          pc, env, req, inputFields, portal, hResult, res, executions, usageWrites, codeRuns,
          ewPc, ewConfig, ewContext, ewRetry, ewAddresses, ewDnsCheck, ewResolved, ewAttempt,
          ewAttempts, ewLast, ewDelay, ewResult, sysDns, urlChecks, dnsQueries,
          connects, ewElapsed,
          gdPc, gdAddr, gdUrlVerdict, gdDnsVerdict, usDoc, usCalls, snCount, snPc, snLoaded,
          scPc, scCode, scDocs, scDecrypted, scWorker, scResult, scRecord,
          exClock, exTimeout, exWorker, exInbox, exListening, exResolved, exResult, exHandled,
          crStored, crPc, crSeen, pfPc, pfIn, pfOut,
          raClock, raStored, raPc, raRead, raWrites,
          wkPc, wkConsole, wkCalls, wkTimers, wkActive, wkMessage>>

ewVars == <<ewPc, ewConfig, ewContext, ewRetry, ewAddresses, ewDnsCheck, ewResolved, ewAttempt,
            ewAttempts, ewLast, ewDelay, ewResult, sysDns, urlChecks, dnsQueries,
            connects, ewElapsed>>

sigVars == <<svPc, svSigned, svArgs, svNow, svResult>>

rqVars == <<pc, env, req, inputFields, portal, hResult, res, executions, usageWrites, codeRuns>>

gdVars == <<gdPc, gdAddr, gdUrlVerdict, gdDnsVerdict>>

usVars == <<usDoc, usCalls>>

snVars == <<snCount, snPc, snLoaded>>

scVars == <<scPc, scCode, scDocs, scDecrypted, scWorker, scResult, scRecord>>

exVars == <<exClock, exTimeout, exWorker, exInbox, exListening, exResolved, exResult, exHandled>>

crVars == <<crStored, crPc, crSeen>>

pfVars == <<pfPc, pfIn, pfOut>>

raVars == <<raClock, raStored, raPc, raRead, raWrites>>

wkVars == <<wkPc, wkConsole, wkCalls, wkTimers, wkActive, wkMessage>>

endVars == <<raVars, wkVars>>

lateVars == <<exVars, crVars, pfVars, endVars>>

auxVars == <<gdVars, usVars, snVars, scVars, lateVars>>

coreVars == <<gdVars, usVars, snVars, scVars, sigVars, ewVars, rqVars>>

\* Every variable outside the groups ex, cr and pf.
baseVars == <<coreVars, endVars>>

(***************************************************************************)
(* Strings                                                                 *)
(***************************************************************************)
Digits == <<"0", "1", "2", "3", "4", "5", "6", "7", "8", "9">>

IsDigit(c) == \E i \in 1..10 : Digits[i] = c

DigitVal(c) == CHOOSE d \in 0..9 : Digits[d + 1] = c

\* Number.prototype.toString for a natural number.
RECURSIVE ToStr(_)
ToStr(n) == IF n < 10 THEN <<Digits[n + 1]>>
            ELSE ToStr(n \div 10) \o <<Digits[(n % 10) + 1]>>

NaN == [nan |-> TRUE, val |-> 0]

RECURSIVE SkipWs(_)
SkipWs(s) == IF s # <<>> /\ Head(s) = " " THEN SkipWs(Tail(s)) ELSE s

RECURSIVE ParseDigits(_, _, _)
ParseDigits(s, acc, seen) ==
    IF s # <<>> /\ IsDigit(Head(s))
    THEN ParseDigits(Tail(s), acc * 10 + DigitVal(Head(s)), TRUE)
    ELSE [nan |-> ~seen, val |-> acc]

\* parseInt(s, 10): leading white space and one sign are skipped, the longest
\* prefix of digits is the value, and there is no value (NaN) without a digit.
ParseInt(s) ==
    LET t == SkipWs(s)
        signed == t # <<>> /\ Head(t) \in {"-", "+"}
        p == ParseDigits(IF signed THEN Tail(t) ELSE t, 0, FALSE)
    IN  IF p.nan THEN NaN
        ELSE [nan |-> FALSE, val |-> IF signed /\ Head(t) = "-" THEN 0 - p.val ELSE p.val]

Abs(x) == IF x < 0 THEN 0 - x ELSE x

(***************************************************************************)
(* Signature verifier                                                      *)
(***************************************************************************)
\* 5 * 60 * 1000
WindowMs == 300000

\* crypto.createHash('sha256').update(m).digest('hex')
Sha256Hex(m) == [alg |-> "sha256-hex", key |-> <<>>, msg |-> m]

\* crypto.createHmac('sha256', k).update(m).digest('base64')
HmacSha256Base64(k, m) == [alg |-> "hmac-sha256-base64", key |-> k, msg |-> m]

verifySignatureV1(signature, clientSecret, requestBody) ==
    Sha256Hex(clientSecret \o requestBody) = signature

verifySignatureV2(signature, clientSecret, method, uri, requestBody) ==
    Sha256Hex(clientSecret \o method \o uri \o requestBody) = signature

\* Math.abs(now - requestTime) > 5 * 60 * 1000; a comparison with NaN is false.
TimestampTooOld(now, timestamp) ==
    LET requestTime == ParseInt(timestamp)
    IN  ~requestTime.nan /\ Abs(now - requestTime.val) > WindowMs

\* A verifier whose comparison leaves the request body out of the signed text.
verifySignatureV3_NoBody(signature, clientSecret, method, uri, requestBody, timestamp, now) ==
    IF TimestampTooOld(now, timestamp)
    THEN [valid |-> FALSE, reason |-> "Timestamp too old"]
    ELSE LET valid == \E body \in {<<"{", "}">>, <<"}">>, <<"{", "}", "0">>} :
                         HmacSha256Base64(clientSecret, method \o uri \o body \o timestamp)
                            = signature
         IN  [valid |-> valid, reason |-> IF valid THEN "null" ELSE "Signature mismatch"]

verifySignatureV3(signature, clientSecret, method, uri, requestBody, timestamp, now) ==
    IF TimestampTooOld(now, timestamp)
    THEN [valid |-> FALSE, reason |-> "Timestamp too old"]
    ELSE LET hash == HmacSha256Base64(clientSecret, method \o uri \o requestBody \o timestamp)
         IN  [valid |-> hash = signature,
              reason |-> IF hash = signature THEN "null" ELSE "Signature mismatch"]

(***************************************************************************)
(* verifySignatureV3 on its own: a sender signs a tuple, the verifier is   *)
(* called with a signature and a tuple of its own.                         *)
(***************************************************************************)
\* Date.now() of the verifying call, in ms.
ClockNow == 1000000

SvSecrets == {<<"k">>, <<"w">>}
SvMethods == {<<"P">>, <<"G">>}
SvUris == {<<"/", "a">>, <<"/", "a", "{">>}
SvBodies == {<<"{", "}">>, <<"}">>, <<"{", "}", "0">>}

\* Values of the X-HubSpot-Request-Timestamp header.
SvTimestamps ==
    { ToStr(ClockNow),
      ToStr(ClockNow - WindowMs),
      ToStr(ClockNow - WindowMs - 1),
      ToStr(ClockNow + WindowMs + 1),
      <<"0">> \o ToStr(ClockNow),
      <<"a", "b", "c">> }

SvTuples ==
    [secret : SvSecrets, method : SvMethods, uri : SvUris, body : SvBodies,
     timestamp : SvTimestamps]

SignatureOf(t) ==
    HmacSha256Base64(t.secret, t.method \o t.uri \o t.body \o t.timestamp)

NoTuple == [secret |-> <<>>, method |-> <<>>, uri |-> <<>>, body |-> <<>>,
            timestamp |-> <<>>]

NoVerdict == [valid |-> FALSE, reason |-> "none"]

SvIdle ==
    /\ svPc = "start"
    /\ svSigned = NoTuple
    /\ svArgs = NoTuple
    /\ svNow = ClockNow
    /\ svResult = NoVerdict

\* scripts/verify-signatures.js: the sender computes the signature of its tuple.
SvSign ==
    /\ svPc = "start"
    /\ \E t \in SvTuples : svSigned' = t
    /\ svPc' = "signed"
    /\ UNCHANGED <<svArgs, svNow, svResult>>
    /\ UNCHANGED <<ewVars, rqVars>>
    /\ UNCHANGED auxVars

\* The verifier is called with that signature and any tuple.
SvVerify ==
    /\ svPc = "signed"
    /\ \E a \in SvTuples :
          /\ svArgs' = a
          /\ svResult' = verifySignatureV3(SignatureOf(svSigned), a.secret, a.method,
                                           a.uri, a.body, a.timestamp, svNow)
    /\ svPc' = "verified"
    /\ UNCHANGED <<svSigned, svNow>>
    /\ UNCHANGED <<ewVars, rqVars>>
    /\ UNCHANGED auxVars

SvNext == SvSign \/ SvVerify

(***************************************************************************)
(* SSRF guard                                                              *)
(*                                                                         *)
(* An IPv4 address is its four octets (the URL parser and the resolver     *)
(* both give the canonical dotted form, on which the patterns test the     *)
(* leading octets); an IPv6 address is its text split at ":", and as a     *)
(* URL hostname that text is in brackets: "[fc00::1]" is <<"[fc00","","1]">>.*)
(***************************************************************************)
Ip4(a, b, c, d) == [v |-> 4, o |-> <<a, b, c, d>>, g |-> <<>>]
Ip6(groups) == [v |-> 6, o |-> <<0, 0, 0, 0>>, g |-> groups]

\* BLOCKED_IP_PATTERNS, each tested on the text of the address.
MatchesBlockedPattern(ip) ==
    IF ip.v = 4
    THEN \/ ip.o[1] = 127
         \/ ip.o[1] = 10
         \/ ip.o[1] = 172 /\ ip.o[2] \in 16..31
         \/ ip.o[1] = 192 /\ ip.o[2] = 168
         \/ ip.o[1] = 169 /\ ip.o[2] = 254
         \/ ip.o[1] = 0
         \/ ip.o[1] = 100 /\ ip.o[2] \in 64..127
         \/ ip.o[1] = 192 /\ ip.o[2] = 0 /\ ip.o[3] = 0
         \/ ip.o[1] = 192 /\ ip.o[2] = 0 /\ ip.o[3] = 2
         \/ ip.o[1] = 198 /\ ip.o[2] = 51 /\ ip.o[3] = 100
         \/ ip.o[1] = 203 /\ ip.o[2] = 0 /\ ip.o[3] = 113
         \/ ip.o[1] = 224
         \/ ip.o[1] = 240
         \/ ip.o[1] = 255
    ELSE \/ ip.g = <<"", "", "1">>
         \/ Len(ip.g) >= 2 /\ ip.g[1] = "fc00"
         \/ Len(ip.g) >= 2 /\ ip.g[1] = "fe80"

\* parsedUrl.hostname: a name, an IPv4 literal or a bracketed IPv6 literal.
HostName(n) == [kind |-> "name", name |-> n, ip |-> Ip4(0, 0, 0, 0)]
HostIp4(a, b, c, d) == [kind |-> "ip4", name |-> "", ip |-> Ip4(a, b, c, d)]
HostIp6(groups) == [kind |-> "ip6", name |-> "", ip |-> Ip6(groups)]

\* BLOCKED_HOSTNAMES, as names and as address literals.
BlockedNames == {"localhost", "localhost.localdomain", "metadata.google.internal",
                 "metadata.azure.com"}
BlockedLiteralIp4 == {Ip4(127, 0, 0, 1), Ip4(0, 0, 0, 0), Ip4(169, 254, 169, 254)}
BlockedLiteralIp6 == {Ip6(<<"", "", "1">>), Ip6(<<"[", "", "1]">>)}

\* BLOCKED_HOSTNAMES.includes(hostname), hostname being parsedUrl.hostname.
HostnameBlocked(h) ==
    \/ h.kind = "name" /\ h.name \in BlockedNames
    \/ h.kind = "ip4" /\ h.ip \in BlockedLiteralIp4
    \/ h.kind = "ip6" /\ h.ip \in BlockedLiteralIp6

\* A URL after new URL(): whether it parsed, its protocol, host and userinfo.
Url(protocol, host, creds) ==
    [parses |-> TRUE, protocol |-> protocol, host |-> host, creds |-> creds]
BadUrl == [parses |-> FALSE, protocol |-> "", host |-> HostName(""), creds |-> FALSE]

validateWebhookUrl(url) ==
    IF ~url.parses THEN [valid |-> FALSE, error |-> "Invalid URL format"]
    ELSE IF url.protocol \notin {"http:", "https:"}
    THEN [valid |-> FALSE, error |-> "Protocol is not allowed"]
    ELSE IF HostnameBlocked(url.host)
    THEN [valid |-> FALSE, error |-> "Hostname is not allowed"]
    ELSE IF url.host.kind = "ip4" /\ MatchesBlockedPattern(url.host.ip)
    THEN [valid |-> FALSE, error |-> "IP address is in a blocked range"]
    ELSE IF url.host.kind = "ip6" /\ MatchesBlockedPattern(url.host.ip)
    THEN [valid |-> FALSE, error |-> "IPv6 address is in a blocked range"]
    ELSE IF url.creds
    THEN [valid |-> FALSE, error |-> "URLs with embedded credentials are not allowed"]
    ELSE [valid |-> TRUE, error |-> "none"]

isBlockedIP(ip) ==
    \/ MatchesBlockedPattern(ip)
    \/ ip \in BlockedLiteralIp4
    \/ ip \in BlockedLiteralIp6

Range(s) == {s[i] : i \in 1..Len(s)}

\* What dns.lookup(hostname, { all: true }) gives: an error or a list of addresses.
DnsOk(addrs) == [err |-> FALSE, addrs |-> addrs]
DnsErr == [err |-> TRUE, addrs |-> <<>>]

\* A guard that accepts whatever the resolver answers, blocked or not.
validateResolvedIP_AnyAddress(host, answer) ==
    IF host.kind = "ip4" THEN [valid |-> TRUE, resolvedAddresses |-> <<>>, error |-> "none"]
    ELSE IF answer.err
    THEN [valid |-> FALSE, resolvedAddresses |-> <<>>, error |-> "DNS resolution failed"]
    ELSE IF Len(answer.addrs) = 0
    THEN [valid |-> FALSE, resolvedAddresses |-> <<>>,
          error |-> "DNS resolution returned no addresses"]
    ELSE [valid |-> TRUE, resolvedAddresses |-> answer.addrs, error |-> "none"]

\* validateResolvedIP(hostname), given the answer of the resolver
\* (not asked for an IPv4 literal).
validateResolvedIP(host, answer) ==
    IF host.kind = "ip4" THEN [valid |-> TRUE, resolvedAddresses |-> <<>>, error |-> "none"]
    ELSE IF answer.err
    THEN [valid |-> FALSE, resolvedAddresses |-> <<>>, error |-> "DNS resolution failed"]
    ELSE IF Len(answer.addrs) = 0
    THEN [valid |-> FALSE, resolvedAddresses |-> <<>>,
          error |-> "DNS resolution returned no addresses"]
    ELSE IF \E i \in 1..Len(answer.addrs) : isBlockedIP(answer.addrs[i])
    THEN [valid |-> FALSE, resolvedAddresses |-> <<>>, error |-> "resolves to blocked IP"]
    ELSE [valid |-> TRUE, resolvedAddresses |-> answer.addrs, error |-> "none"]

(***************************************************************************)
(* Templates                                                               *)
(*                                                                         *)
(* A JSON value is tagged: an object (a function on its own keys), a host  *)
(* text or undefined.  A path is the sequence of its dot-separated parts.  *)
(***************************************************************************)
JObj(f) == [t |-> "obj", f |-> f, h |-> HostName("")]
JHost(h) == [t |-> "host", f |-> <<>>, h |-> h]
JUndef == [t |-> "undef", f |-> <<>>, h |-> HostName("")]

BLOCKED_KEYS == {"__proto__", "constructor", "prototype"}

\* getValueByPath(obj, path) for parts without an array index.
RECURSIVE getValueByPath(_, _)
getValueByPath(obj, path) ==
    IF path = <<>> THEN obj
    ELSE IF obj.t = "undef" THEN JUndef
    ELSE IF Head(path) \in BLOCKED_KEYS THEN JUndef
    ELSE IF obj.t # "obj" \/ Head(path) \notin DOMAIN obj.f THEN JUndef
    ELSE getValueByPath(obj.f[Head(path)], Tail(path))

\* A url template: its host is a literal or one {{path}} placeholder.
UrlLiteral(url) == [tpl |-> FALSE, url |-> url, path |-> <<>>]
UrlTemplate(protocol, path) ==
    [tpl |-> TRUE, url |-> Url(protocol, HostName(""), FALSE), path |-> path]

\* processTemplate(config.url, context): the placeholder is replaced by the text
\* of the value, by '' when there is none (and a URL without a host does not parse).
processTemplate(template, context) ==
    IF ~template.tpl THEN template.url
    ELSE LET value == getValueByPath(context, template.path)
         IN  IF value.t = "host" THEN [template.url EXCEPT !.host = value.h]
             ELSE BadUrl



(***************************************************************************)
(* Webhook dispatcher: executeSingleRequest and executeWebhook             *)
(***************************************************************************)
\* A field that is not set (undefined) in a number position.
Absent == 0 - 1

DefaultMaxRetries == 3
DefaultInitialDelayMs == 1000
DefaultMaxDelayMs == 10000
DefaultBackoffMultiplier == 2

DEFAULT_RETRY_CONFIG ==
    [maxRetries |-> DefaultMaxRetries,
     initialDelayMs |-> DefaultInitialDelayMs,
     maxDelayMs |-> DefaultMaxDelayMs,
     backoffMultiplier |-> DefaultBackoffMultiplier,
     retryableStatusCodes |-> {408, 429, 500, 502, 503, 504},
     retryableErrors |-> {"ECONNRESET", "ETIMEDOUT", "ECONNABORTED", "ENOTFOUND", "EAI_AGAIN"}]

\* { ...DEFAULT_RETRY_CONFIG, ...retryConfig }
MergeRetry(retryConfig) ==
    [DEFAULT_RETRY_CONFIG EXCEPT
        !.maxRetries = IF retryConfig.maxRetries = Absent THEN @ ELSE retryConfig.maxRetries,
        !.initialDelayMs =
            IF retryConfig.initialDelayMs = Absent THEN @ ELSE retryConfig.initialDelayMs,
        !.maxDelayMs = IF retryConfig.maxDelayMs = Absent THEN @ ELSE retryConfig.maxDelayMs]

RECURSIVE Pow(_, _)
Pow(b, e) == IF e = 0 THEN 1 ELSE b * Pow(b, e - 1)

Min(a, b) == IF a < b THEN a ELSE b

\* A backoff that leaves out the cap of maxDelayMs.
calculateBackoffDelay_NoCap(attempt, config, rand) ==
    (config.initialDelayMs * Pow(config.backoffMultiplier, attempt) * (3000 + 2 * rand) + 2000)
        \div 4000

\* calculateBackoffDelay(attempt, config) with Math.random() = rand / 1000:
\* Math.round(capped + capped * 0.25 * (random * 2 - 1)).
calculateBackoffDelay(attempt, config, rand) ==
    LET exponentialDelay == config.initialDelayMs * Pow(config.backoffMultiplier, attempt)
        cappedDelay == Min(exponentialDelay, config.maxDelayMs)
    IN  (cappedDelay * (3000 + 2 * rand) + 2000) \div 4000

\* What one request meets upstream: a response with a status, a transport error
\* with a code, or a redirect that the HTTP client follows to a response.
Http(status) == [kind |-> "http", status |-> status, code |-> "", to |-> HostName("")]
NetError(code) == [kind |-> "error", status |-> 0, code |-> code, to |-> HostName("")]
Redirect(to, status) == [kind |-> "redirect", status |-> status, code |-> "", to |-> to]

\* The object executeSingleRequest returns (0 and "" stand for an unset field).
SingleResult(outcome) ==
    IF outcome.kind = "error"
    THEN IF outcome.code = "ECONNABORTED"
         THEN [success |-> FALSE, status |-> "timeout", httpStatusCode |-> 0,
               errorMessage |-> "Request timed out", errorCode |-> "",
               error |-> outcome.code]
         ELSE [success |-> FALSE, status |-> "error", httpStatusCode |-> 0,
               errorMessage |-> outcome.code, errorCode |-> outcome.code,
               error |-> outcome.code]
    ELSE LET isSuccess == outcome.status >= 200 /\ outcome.status < 300
         IN  [success |-> isSuccess, status |-> IF isSuccess THEN "success" ELSE "error",
              httpStatusCode |-> outcome.status, errorMessage |-> "", errorCode |-> "",
              error |-> ""]

ValidationFailed ==
    [success |-> FALSE, status |-> "error", httpStatusCode |-> 0,
     errorMessage |-> "URL validation failed", errorCode |-> "", error |-> ""]

\* A dispatcher for which no failure is worth a retry.
isRetryable_Never(result, error, config) == FALSE

\* A dispatcher that retries on status codes and timeouts only.
isRetryable_StatusOnly(result, error, config) ==
    \/ result.httpStatusCode # 0 /\ result.httpStatusCode \in config.retryableStatusCodes
    \/ result.status = "timeout"

isRetryable(result, error, config) ==
    \/ error # "" /\ error \in config.retryableErrors
    \/ result.httpStatusCode # 0 /\ result.httpStatusCode \in config.retryableStatusCodes
    \/ result.status = "timeout"

\* A dispatcher whose agents have no pinned lookup: every connection asks the
\* system resolver.
ConnectChoices_SystemLookup(host, resolvedAddresses) ==
    IF host.kind = "ip4"
    THEN {[addr |-> host.ip, via |-> "literal"]}
    ELSE IF sysDns.err THEN {}
    ELSE {[addr |-> a, via |-> "system"] : a \in Range(sysDns.addrs)}

\* The addresses a connection to `host` can reach.  With pinned addresses the
\* agents get pinnedLookup, which answers with all of them or with the first;
\* an IPv4 literal is connected to without a lookup; otherwise the system
\* resolver is asked.
ConnectChoices(host, resolvedAddresses) ==
    IF host.kind = "ip4"
    THEN {[addr |-> host.ip, via |-> "literal"]}
    ELSE IF Len(resolvedAddresses) > 0
    THEN {[addr |-> a, via |-> "pinned"] : a \in Range(resolvedAddresses)}
    ELSE IF sysDns.err THEN {}
    ELSE {[addr |-> a, via |-> "system"] : a \in Range(sysDns.addrs)}

\* Hosts a redirect's Location names, and what the server there answers.
RedirectTargets == {HostIp4(169, 254, 169, 254), HostName("files.example.com")}

UpstreamOutcomes ==
    {Http(200), Http(400), Http(429), NetError("ECONNABORTED"), NetError("ECONNREFUSED")}
    \cup {Redirect(h, 200) : h \in RedirectTargets}

\* The timeout the handler passes (portal?.settings?.webhookTimeout || 30000).
TimeoutMs == 30000

\* Time an upstream takes to answer when it answers.
ResponseMs == 100

\* executionTimeMs of one request: axios gives ECONNABORTED when `timeout` ms
\* have passed without an answer.
DurationOf(outcome) ==
    IF outcome.kind = "error" /\ outcome.code = "ECONNABORTED" THEN TimeoutMs
    ELSE IF outcome.kind = "error" THEN 0
    ELSE ResponseMs

\* executeSingleRequest(config, context, timeout, skipValidation, resolvedAddresses):
\* every way the call can go, as the result it returns, the connections it
\* opens and the validateWebhookUrl calls it makes.
executeSingleRequest(config, context, skipValidation, resolvedAddresses) ==
    LET url == processTemplate(config.url, context)
    IN  IF ~skipValidation /\ ~validateWebhookUrl(url).valid
        THEN {[result |-> ValidationFailed, conns |-> <<>>, checks |-> 1, ms |-> 0]}
        ELSE LET checks == IF skipValidation THEN 0 ELSE 1
                 first == ConnectChoices(url.host, resolvedAddresses)
             IN  IF first = {}
                 THEN {[result |-> SingleResult(NetError("ENOTFOUND")), conns |-> <<>>,
                        checks |-> checks, ms |-> 0]}
                 ELSE UNION {
                        IF o.kind = "redirect"
                        THEN LET second == ConnectChoices(o.to, resolvedAddresses)
                             IN  IF second = {}
                                 THEN {[result |-> SingleResult(NetError("ENOTFOUND")),
                                        conns |-> <<c @@ [hop |-> 0]>>,
                                        checks |-> checks, ms |-> DurationOf(o)] : c \in first}
                                 ELSE {[result |-> SingleResult(Http(o.status)),
                                        conns |-> <<c @@ [hop |-> 0], d @@ [hop |-> 1]>>,
                                        checks |-> checks, ms |-> DurationOf(o)] :
                                            c \in first, d \in second}
                        ELSE {[result |-> SingleResult(o),
                               conns |-> <<c @@ [hop |-> 0]>>,
                               checks |-> checks, ms |-> DurationOf(o)] : c \in first}
                        : o \in UpstreamOutcomes }

NoResult ==
    [success |-> FALSE, status |-> "none", httpStatusCode |-> 0, errorMessage |-> "",
     errorCode |-> "", error |-> ""]

\* What executeWebhook returns: a single result and, when the loop ran or the
\* guard rejected, the attempts and retriesUsed (hasAttempts tells whether the
\* object has these two fields).
Returned(result, hasAttempts, attempts, retriesUsed) ==
    [result |-> result, hasAttempts |-> hasAttempts, attempts |-> attempts,
     retriesUsed |-> retriesUsed]

NotReturned == Returned(NoResult, FALSE, <<>>, 0)

GuardRejected(message) ==
    Returned([NoResult EXCEPT !.status = "error", !.errorMessage = message], TRUE, <<>>, 0)

NoDnsCheck == [valid |-> FALSE, resolvedAddresses |-> <<>>, error |-> "not run"]

\* Values of Math.random(), in thousandths.
Randoms == {0, 500, 999}

\* executeWebhook, lines 890-908: the url template is processed and validated.
EwValidate ==
    /\ ewPc = "validate"
    /\ urlChecks' = urlChecks + 1
    /\ LET processedUrl == processTemplate(ewConfig.url, ewContext)
           urlValidation == validateWebhookUrl(processedUrl)
       IN  IF ~urlValidation.valid
           THEN /\ ewResult' = GuardRejected("URL validation failed")
                /\ ewPc' = "returned"
           ELSE /\ ewPc' = "dns"
                /\ UNCHANGED ewResult
    /\ UNCHANGED <<ewConfig, ewContext, ewRetry, ewAddresses, ewDnsCheck, ewResolved, ewAttempt,
                   ewAttempts, ewLast, ewDelay, sysDns, dnsQueries, connects, ewElapsed>>
    /\ UNCHANGED <<sigVars, rqVars>>
    /\ UNCHANGED auxVars

\* Lines 910-949: the hostname is resolved, its addresses are checked and pinned.
EwResolve ==
    /\ ewPc = "dns"
    /\ LET host == processTemplate(ewConfig.url, ewContext).host
           dnsCheck == validateResolvedIP(host, sysDns)
       IN  /\ dnsQueries' = dnsQueries + (IF host.kind = "ip4" THEN 0 ELSE 1)
           /\ ewAddresses' = IF host.kind = "ip4" THEN ewAddresses ELSE sysDns
           /\ ewDnsCheck' = dnsCheck
           /\ IF ~dnsCheck.valid
              THEN /\ ewResult' = GuardRejected("SSRF protection")
                   /\ ewPc' = "returned"
                   /\ UNCHANGED ewResolved
              ELSE /\ ewResolved' = dnsCheck.resolvedAddresses
                   /\ ewPc' = IF MergeRetry(ewRetry).maxRetries = 0 THEN "single" ELSE "attempt"
                   /\ UNCHANGED ewResult
    /\ UNCHANGED <<ewConfig, ewContext, ewRetry, ewAttempt, ewAttempts, ewLast, ewDelay,
                   sysDns, urlChecks, connects, ewElapsed>>
    /\ UNCHANGED <<sigVars, rqVars>>
    /\ UNCHANGED auxVars

\* Lines 946-949: with maxRetries 0 the single request's result is returned as it is.
EwSingle ==
    /\ ewPc = "single"
    /\ \E r \in executeSingleRequest(ewConfig, ewContext, TRUE, ewResolved) :
          /\ connects' = connects \o r.conns
          /\ urlChecks' = urlChecks + r.checks
          /\ ewResult' = Returned(r.result, FALSE, <<>>, 0)
          /\ ewElapsed' = ewElapsed + r.ms
    /\ ewPc' = "returned"
    /\ UNCHANGED <<ewConfig, ewContext, ewRetry, ewAddresses, ewDnsCheck, ewResolved, ewAttempt,
                   ewAttempts, ewLast, ewDelay, sysDns, dnsQueries>>
    /\ UNCHANGED <<sigVars, rqVars>>
    /\ UNCHANGED auxVars

\* Lines 962-1004: one iteration of the loop after its sleep.
EwAttempt ==
    /\ ewPc = "attempt"
    /\ \E r \in executeSingleRequest(ewConfig, ewContext, TRUE, ewResolved) :
          LET retry == MergeRetry(ewRetry)
              attempts == Append(ewAttempts,
                                 [attempt |-> ewAttempt + 1,
                                  status |-> r.result.status,
                                  httpStatusCode |-> r.result.httpStatusCode,
                                  executionTimeMs |-> r.ms,
                                  errorMessage |-> r.result.errorMessage])
          IN  /\ connects' = connects \o r.conns
              /\ ewElapsed' = ewElapsed + r.ms
              /\ urlChecks' = urlChecks + r.checks
              /\ ewAttempts' = attempts
              /\ ewLast' = r.result
              /\ IF r.result.success
                 THEN /\ ewResult' = Returned(r.result, TRUE, attempts, ewAttempt)
                      /\ ewPc' = "returned"
                      /\ UNCHANGED ewAttempt
                 ELSE IF ewAttempt < retry.maxRetries
                         /\ isRetryable(r.result, r.result.error, retry)
                 THEN /\ ewAttempt' = ewAttempt + 1
                      /\ ewPc' = "sleep"
                      /\ UNCHANGED ewResult
                 ELSE /\ ewResult' = Returned(r.result, TRUE, attempts, Len(attempts) - 1)
                      /\ ewPc' = "returned"
                      /\ UNCHANGED ewAttempt
    /\ UNCHANGED <<ewConfig, ewContext, ewRetry, ewAddresses, ewDnsCheck, ewResolved, ewDelay, sysDns,
                   dnsQueries>>
    /\ UNCHANGED <<sigVars, rqVars>>
    /\ UNCHANGED auxVars

\* Lines 955-960: the backoff before a retry.
EwSleep ==
    /\ ewPc = "sleep"
    /\ \E rand \in Randoms :
          ewDelay' = calculateBackoffDelay(ewAttempt - 1, MergeRetry(ewRetry), rand)
    /\ ewPc' = "attempt"
    /\ UNCHANGED <<ewConfig, ewContext, ewRetry, ewAddresses, ewDnsCheck, ewResolved, ewAttempt,
                   ewAttempts, ewLast, ewResult, sysDns, urlChecks, dnsQueries, connects>>
    /\ ewElapsed' = ewElapsed + ewDelay'
    /\ UNCHANGED <<sigVars, rqVars>>
    /\ UNCHANGED auxVars

\* The answers the system resolver can give for the webhook's hostname.
PublicA == Ip4(93, 184, 216, 34)
PublicB == Ip4(93, 184, 216, 35)
Public6 == Ip6(<<"2606", "2800", "", "1">>)
PrivateA == Ip4(10, 0, 0, 5)
Loopback6 == Ip6(<<"", "", "1">>)

DnsAnswers ==
    {DnsErr, DnsOk(<<>>), DnsOk(<<PublicA>>), DnsOk(<<PublicA, Public6>>),
     DnsOk(<<PublicB, PrivateA>>), DnsOk(<<Loopback6>>), DnsOk(<<PrivateA>>)}

\* The owner of the hostname changes its records while the call is running.
Rebind ==
    /\ ewPc \in {"dns", "single", "attempt", "sleep"}
    /\ \E a \in DnsAnswers \ {sysDns} : sysDns' = a
    /\ UNCHANGED <<ewPc, ewConfig, ewContext, ewRetry, ewAddresses, ewDnsCheck, ewResolved, ewAttempt,
                   ewAttempts, ewLast, ewDelay, ewResult, urlChecks, dnsQueries, connects, ewElapsed>>
    /\ UNCHANGED <<sigVars, rqVars>>
    /\ UNCHANGED auxVars

\* The url templates and the contexts of the calls.
WebhookHosts ==
    {HostName("api.example.com"), HostName("localhost"), HostIp4(93, 184, 216, 34),
     HostIp4(10, 0, 0, 5), HostIp4(169, 254, 169, 254), HostIp6(<<"[", "", "1]">>)}

TargetPath == <<"object", "properties", "target">>

WebhookUrls ==
    {UrlLiteral(Url("https:", h, FALSE)) : h \in WebhookHosts}
    \cup {UrlLiteral(Url("ftp:", HostName("api.example.com"), FALSE)),
          UrlLiteral(Url("https:", HostName("api.example.com"), TRUE)),
          UrlLiteral(BadUrl),
          UrlTemplate("https:", TargetPath),
          UrlTemplate("https:", <<"object", "__proto__", "target">>)}

ContextWith(h) == JObj([object |-> JObj([properties |-> JObj([target |-> JHost(h)])])])

WebhookContexts == {ContextWith(HostName("api.example.com")), ContextWith(HostIp4(127, 0, 0, 1))}

\* Largest maxRetries a caller passes.
MaxRetriesInput == 2

\* Delays, in ms, of a caller that sets its own initialDelayMs and maxDelayMs.
ShortInitialDelayMs == 3
ShortMaxDelayMs == 5

RetryConfigs ==
    {[maxRetries |-> m, initialDelayMs |-> Absent, maxDelayMs |-> Absent] : m \in 0..MaxRetriesInput}
    \cup {[maxRetries |-> Absent, initialDelayMs |-> Absent, maxDelayMs |-> Absent],
          [maxRetries |-> MaxRetriesInput, initialDelayMs |-> ShortInitialDelayMs,
           maxDelayMs |-> ShortMaxDelayMs]}

EwIdle ==
    /\ ewPc = "off"
    /\ ewConfig = [url |-> UrlLiteral(BadUrl)]
    /\ ewContext = JUndef
    /\ ewRetry = [maxRetries |-> Absent, initialDelayMs |-> Absent, maxDelayMs |-> Absent]
    /\ ewAddresses = DnsOk(<<>>)
    /\ ewDnsCheck = NoDnsCheck
    /\ ewResolved = <<>>
    /\ ewAttempt = 0
    /\ ewAttempts = <<>>
    /\ ewLast = NoResult
    /\ ewDelay = 0
    /\ ewResult = NotReturned
    /\ sysDns = DnsErr
    /\ urlChecks = 0
    /\ dnsQueries = 0
    /\ connects = <<>>
    /\ ewElapsed = 0

\* A call of executeWebhook(config, context, timeout, retryConfig).
EwCalled(config, context, retryConfig, answer) ==
    /\ ewPc = "validate"
    /\ ewConfig = config
    /\ ewContext = context
    /\ ewRetry = retryConfig
    /\ ewAddresses = DnsOk(<<>>)
    /\ ewDnsCheck = NoDnsCheck
    /\ ewResolved = <<>>
    /\ ewAttempt = 0
    /\ ewAttempts = <<>>
    /\ ewLast = NoResult
    /\ ewDelay = 0
    /\ ewResult = NotReturned
    /\ sysDns = answer
    /\ urlChecks = 0
    /\ dnsQueries = 0
    /\ connects = <<>>
    /\ ewElapsed = 0

\* The handler calls executeWebhook(config, context, timeout, retryConfig).
EwCall(config, context, retryConfig, answer) ==
    /\ ewPc' = "validate"
    /\ ewConfig' = config
    /\ ewContext' = context
    /\ ewRetry' = retryConfig
    /\ ewAddresses' = DnsOk(<<>>)
    /\ ewDnsCheck' = NoDnsCheck
    /\ ewResolved' = <<>>
    /\ ewAttempt' = 0
    /\ ewAttempts' = <<>>
    /\ ewLast' = NoResult
    /\ ewDelay' = 0
    /\ ewResult' = NotReturned
    /\ sysDns' = answer
    /\ urlChecks' = 0
    /\ dnsQueries' = 0
    /\ connects' = <<>>
    /\ ewElapsed' = 0

(***************************************************************************)
(* verifyWorkflowActionSignature                                           *)
(***************************************************************************)
\* process.env.HUBSPOT_CLIENT_SECRET (app.js exits at boot when it is not set),
\* and the method, `${BASE_URL}${originalUrl}` and JSON.stringify(req.body) of
\* the request.
ClientSecret == <<"k">>
ReqMethod == <<"P", "O", "S", "T">>
ReqUri == <<"/", "a">>
ReqBody == <<"{", "}">>

\* A header that was not sent.
NoSignature == [alg |-> "absent", key |-> <<>>, msg |-> <<>>]
NoTimestamp == [present |-> FALSE, text |-> <<>>]
Timestamp(text) == [present |-> TRUE, text |-> text]
NoOrigin == [present |-> FALSE, parses |-> FALSE, hostname |-> <<>>, protocol |-> ""]
Origin(hostname, protocol) ==
    [present |-> TRUE, parses |-> TRUE, hostname |-> hostname, protocol |-> protocol]

\* isValidHubSpotOrigin: the hostname is the sequence of its labels.
isValidHubSpotOrigin(origin) ==
    /\ origin.parses
    /\ \/ origin.hostname = <<"app", "hubspot", "com">>
       \/ /\ Len(origin.hostname) >= 3
          /\ SubSeq(origin.hostname, Len(origin.hostname) - 1, Len(origin.hostname))
                = <<"hubspot", "com">>
          /\ origin.protocol = "https:"

Reply(status) == [next |-> FALSE, status |-> status]
CallNext == [next |-> TRUE, status |-> 0]

\* The middleware: the status it answers with, or next().
verifyWorkflowActionSignature(r, e, now) ==
    IF ~r.portalId THEN Reply(400)
    ELSE IF r.signature # NoSignature
    THEN LET isValid ==
                 CASE r.version = "v3" ->
                          /\ r.timestamp.present /\ r.timestamp.text # <<>>
                          /\ verifySignatureV3(r.signature, ClientSecret, ReqMethod, ReqUri,
                                               ReqBody, r.timestamp.text, now).valid
                   [] r.version = "v2" ->
                          verifySignatureV2(r.signature, ClientSecret, ReqMethod, ReqUri, ReqBody)
                   [] OTHER -> verifySignatureV1(r.signature, ClientSecret, ReqBody)
         IN  IF ~isValid THEN Reply(401) ELSE CallNext
    ELSE IF e.NODE_ENV = "production" THEN Reply(401)
    ELSE IF r.origin.present /\ ~isValidHubSpotOrigin(r.origin) THEN Reply(403)
    ELSE CallNext

(***************************************************************************)
(* Execution.create and the handlers of routes/actions.js                  *)
(***************************************************************************)
MAX_FORMULA_LENGTH == 5000
MAX_INLINE_CODE_LENGTH == 50000
MAX_INPUT_LENGTH == 10000

\* An error message, and whether it went through sanitizeErrorMessage.
Msg(text) == [text |-> text, sanitized |-> FALSE]
NoMsg == Msg("")

\* Messages with a file path and with a database connection string in them.
PathText == "Cannot find module /srv/app/src/services/db.js"

ConnectionText == "connect to mongodb://user:pw@db:27017/app refused"

LeakyTexts == {PathText, ConnectionText}

\* Lines 18-27: the two path patterns and the connection-string pattern are
\* replaced (the slice to 500 characters changes none of the texts used here).
sanitizeErrorMessage(message) ==
    IF message.text = "" THEN [text |-> "An internal error occurred", sanitized |-> TRUE]
    ELSE [text |-> IF message.text = PathText THEN "Cannot find module [path]"
                   ELSE IF message.text = ConnectionText THEN "connect to [connection] refused"
                   ELSE message.text,
          sanitized |-> TRUE]

\* outputFields: "unset" and Absent stand for a field the object does not have;
\* other holds the mapped outputs, the user outputs or the format result.
OutputFields(success, statusCode, retriesUsed, error, other) ==
    [hubhacks_success |-> success, hubhacks_status_code |-> statusCode,
     hubhacks_retries_used |-> retriesUsed, hubhacks_error |-> error, other |-> other]

FailureFields(error) == OutputFields("false", Absent, Absent, error, "")

Bool(b) == IF b THEN "true" ELSE "false"

NoResponse == [sent |-> FALSE, status |-> 0, outputFields |-> OutputFields("unset", Absent, Absent, NoMsg, "")]
Json(status, fields) == [sent |-> TRUE, status |-> status, outputFields |-> fields]
Refused(status) == Json(status, OutputFields("unset", Absent, Absent, NoMsg, ""))

\* An Execution document as the handlers build it.
ExecutionDoc(actionType, status, webhookMethod, errorMessage, retryAttempts) ==
    [actionType |-> actionType, status |-> status, webhookMethod |-> webhookMethod,
     errorMessage |-> errorMessage, retryAttempts |-> retryAttempts]

\* The validation of executionSchema: the enums of actionType, status and
\* webhookMethod ("" is a field that is not set).
ValidExecution(doc) ==
    /\ doc.actionType \in {"webhook", "code"}
    /\ doc.status \in {"success", "error", "timeout"}
    /\ doc.webhookMethod \in {"", "GET", "POST", "PUT", "PATCH", "DELETE"}

\* Execution.create(doc): the documents stored after it, and whether it threw
\* (the schema refused the document, or the database failed).
ExecutionCreate(stored, doc, dbFails) ==
    IF ValidExecution(doc) /\ ~dbFails
    THEN [stored |-> Append(stored, doc), threw |-> FALSE]
    ELSE [stored |-> stored, threw |-> TRUE]

\* The result of an action that has not run.
NoActionResult ==
    [success |-> FALSE, status |-> "none", httpStatusCode |-> 0, errorMessage |-> "",
     retriesUsed |-> 0, attempts |-> <<>>, hasData |-> FALSE, output |-> ""]

\* inputFields: the fields the three handlers read ("" and <<>> are fields that
\* are not set; a text that only matters by its length is that length).
WebhookInput(hasUrl, url, method, mappings, retryEnabled, maxRetries) ==
    [hasUrl |-> hasUrl, webhookUrl |-> url, webhookMethod |-> method,
     outputMappings |-> mappings, retryEnabled |-> retryEnabled, maxRetries |-> maxRetries,
     snippetId |-> "", inlineCode |-> 0,
     customMode |-> FALSE, formula |-> 0, operation |-> "", input1 |-> 0, input2 |-> <<>>]

CodeInput(snippetId, inlineCode) ==
    [WebhookInput(FALSE, UrlLiteral(BadUrl), "", FALSE, "", <<>>) EXCEPT
        !.snippetId = snippetId, !.inlineCode = inlineCode]

FormatInput(customMode, formula, operation, input1, input2) ==
    [WebhookInput(FALSE, UrlLiteral(BadUrl), "", FALSE, "", <<>>) EXCEPT
        !.customMode = customMode, !.formula = formula, !.operation = operation,
        !.input1 = input1, !.input2 = input2]

NoInputs == WebhookInput(FALSE, UrlLiteral(BadUrl), "", FALSE, "", <<>>)

RqIdle ==
    /\ pc = "off"
    /\ env = [NODE_ENV |-> "production", SKIP_SIGNATURE_VERIFICATION |-> FALSE]
    /\ req = [route |-> "", portalId |-> FALSE, signature |-> NoSignature, version |-> "",
              timestamp |-> NoTimestamp, origin |-> NoOrigin]
    /\ inputFields = NoInputs
    /\ portal = "none"
    /\ hResult = NoActionResult
    /\ res = NoResponse
    /\ executions = <<>>
    /\ usageWrites = 0
    /\ codeRuns = 0

\* A request arrives.
Received(r, e) ==
    /\ pc = "received"
    /\ env = e
    /\ req = r
    /\ inputFields = NoInputs
    /\ portal = "none"
    /\ hResult = NoActionResult
    /\ res = NoResponse
    /\ executions = <<>>
    /\ usageWrites = 0
    /\ codeRuns = 0

\* router.post(path, verifyWorkflowActionSignature, handler): the middleware runs.
Middleware ==
    /\ pc = "received"
    /\ LET verdict == verifyWorkflowActionSignature(req, env, ClockNow)
       IN  IF verdict.next
           THEN /\ pc' = "handler"
                /\ UNCHANGED res
           ELSE /\ pc' = "done"
                /\ res' = Refused(verdict.status)
    /\ UNCHANGED <<env, req, inputFields, portal, hResult, executions, usageWrites, codeRuns>>
    /\ UNCHANGED <<sigVars, ewVars>>
    /\ UNCHANGED auxVars

\* The inputFields, the context and the resolver's answers of the requests.
WebhookInputs ==
    {WebhookInput(FALSE, UrlLiteral(BadUrl), "", FALSE, "", <<>>)}
    \cup {WebhookInput(TRUE, u, m, o, e, n) :
             u \in {UrlLiteral(Url("https:", HostName("api.example.com"), FALSE)),
                    UrlLiteral(Url("https:", HostIp4(10, 0, 0, 5), FALSE)),
                    UrlTemplate("https:", TargetPath)},
             m \in {"", "post"}, o \in BOOLEAN, e \in {"", "true", "false"},
             n \in {<<>>, <<"1">>, <<"0">>}}

RequestContext == ContextWith(HostName("api.example.com"))

RequestDnsAnswers == {DnsOk(<<PublicA>>), DnsOk(<<PrivateA>>)}

CodeInputs ==
    {CodeInput(s, n) : s \in {"", "snippet"}, n \in {0, 100, MAX_INLINE_CODE_LENGTH + 1}}

FormatOperations ==
    {"uppercase", "lowercase", "capitalize", "trim", "trimwhitespace", "concat", "substring",
     "replace", "split", "length", "number_format", "currency", "percentage", "round", "floor",
     "ceil", "abs", "add", "subtract", "multiply", "divide", "date_format", "date_add",
     "date_subtract", "date_diff", "now", "json_get", "json_stringify", "json_parse",
     "default_value", "conditional"}

FormatInputs ==
    {FormatInput(c, f, o, i, d) :
        c \in BOOLEAN, f \in {0, 10, MAX_FORMULA_LENGTH + 1},
        o \in {"", "uppercase", "divide", "reverse"}, i \in {5, MAX_INPUT_LENGTH + 1},
        d \in {<<>>, <<"0">>, <<"2">>}}

\* What Portal.findOne can give; it can also throw.
PortalLookups == {"missing", "inactive", "active", "throws"}

\* Where the database fails after the action has run: nowhere, in
\* Execution.create, in snippetDoc.save or in Usage.recordExecution.
DbFailures == {"none", "create", "save", "usage"}

\* parseInt(maxRetries, 10) || 3, maxRetries defaulting to '3'.
MaxRetriesOf(text) ==
    LET n == ParseInt(IF text = <<>> THEN <<"3">> ELSE text)
    IN  IF n.nan \/ n.val = 0 THEN DefaultMaxRetries ELSE n.val

\* webhookMethod = 'POST' when the field is not set (line 226).
MethodOf(inputs) == IF inputs.webhookMethod = "" THEN "POST" ELSE inputs.webhookMethod

\* A handler that builds the retry configuration whatever retryEnabled says.
RetryConfigOf_Always(inputs) ==
    [maxRetries |-> MaxRetriesOf(inputs.maxRetries),
     initialDelayMs |-> DefaultInitialDelayMs, maxDelayMs |-> DefaultMaxDelayMs]

\* Lines 281-288 of the webhook handler.
RetryConfigOf(inputs) ==
    IF inputs.retryEnabled \in {"", "true"}
    THEN [maxRetries |-> MaxRetriesOf(inputs.maxRetries),
          initialDelayMs |-> DefaultInitialDelayMs, maxDelayMs |-> DefaultMaxDelayMs]
    ELSE [maxRetries |-> 0, initialDelayMs |-> Absent, maxDelayMs |-> Absent]

\* The handler's view of what executeWebhook returned: result.retriesUsed and
\* result.attempts are undefined when the object has no such fields.
WebhookResult(returned) ==
    [success |-> returned.result.success, status |-> returned.result.status,
     httpStatusCode |-> returned.result.httpStatusCode,
     errorMessage |-> returned.result.errorMessage,
     retriesUsed |-> IF returned.hasAttempts THEN returned.retriesUsed ELSE 0,
     attempts |-> IF returned.hasAttempts THEN returned.attempts ELSE <<>>,
     hasData |-> returned.result.success, output |-> ""]

\* Lines 298-317: the outputFields of the webhook action.
WebhookOutputFields(r, inputs) ==
    OutputFields(Bool(r.success),
                 IF r.httpStatusCode = 0 THEN Absent ELSE r.httpStatusCode,
                 r.retriesUsed,
                 IF r.success THEN NoMsg ELSE Msg(r.errorMessage),
                 IF inputs.outputMappings /\ r.success /\ r.hasData THEN "mapped" ELSE "")

\* Lines 488-495: the outputFields of the code action.
CodeOutputFields(r) ==
    OutputFields(Bool(r.success), Absent, Absent,
                 IF r.success THEN NoMsg ELSE Msg(r.errorMessage), r.output)

\* Lines 627-633 and 996-1002: the outputFields of a format action.
FormatOutputFields(r) == OutputFields("true", Absent, Absent, NoMsg, r.output)

\* The record-and-respond tail shared by the three handlers (lines 319-377,
\* 497-554, 605-654, 973-1023): Execution.create, the snippet update for a
\* code action that used a snippet, Usage.recordExecution and res.json; the
\* first of them that throws leads to the catch block, which writes an error
\* document (its own failure is swallowed) and answers with the thrown message.
RecordAndRespond(doc, catchDoc, fields, usesSnippet, fail, fail2, catchFields) ==
    LET first == ExecutionCreate(executions, doc, fail = "create")
        threw == \/ first.threw
                 \/ usesSnippet /\ fail = "save"
                 \/ fail = "usage"
        second == ExecutionCreate(first.stored, catchDoc, fail2)
    IN  /\ executions' = IF threw THEN second.stored ELSE first.stored
        /\ usageWrites' = IF threw THEN usageWrites ELSE usageWrites + 1
        /\ res' = IF threw THEN Json(200, catchFields) ELSE Json(200, fields)
        /\ pc' = "done"

\* The message of the error that reached the catch block.
Thrown == Msg("thrown")

\* router.post('/webhook'), lines 213-296: up to the call of executeWebhook.
WebhookBegin ==
    /\ pc = "handler"
    /\ req.route = "webhook"
    /\ \E inputs \in WebhookInputs, found \in PortalLookups, answer \in RequestDnsAnswers,
          fail2 \in BOOLEAN :
          /\ inputFields' = inputs
          /\ IF ~inputs.hasUrl
             THEN /\ res' = Json(400, OutputFields("unset", Absent, Absent,
                                                   Msg("Missing webhook URL"), ""))
                  /\ pc' = "done"
                  /\ UNCHANGED <<portal, executions, ewVars>>
             ELSE IF found = "throws"
             THEN /\ executions' =
                        ExecutionCreate(executions,
                                        ExecutionDoc("webhook", "error", MethodOf(inputs),
                                                     Thrown, <<>>),
                                        fail2).stored
                  /\ res' = Json(200, FailureFields(sanitizeErrorMessage(Thrown)))
                  /\ pc' = "done"
                  /\ UNCHANGED <<portal, ewVars>>
             ELSE /\ portal' = found
                  /\ pc' = "webhook"
                  /\ EwCall([url |-> inputs.webhookUrl], RequestContext,
                            RetryConfigOf(inputs), answer)
                  /\ UNCHANGED <<res, executions>>
    /\ UNCHANGED <<env, req, hResult, usageWrites, codeRuns, sigVars>>
    /\ UNCHANGED auxVars

\* Lines 298-377: after executeWebhook has returned.
WebhookFinish ==
    /\ pc = "webhook"
    /\ ewPc = "returned"
    /\ \E fail \in DbFailures \ {"save"}, fail2 \in BOOLEAN :
          LET r == WebhookResult(ewResult)
              fields == WebhookOutputFields(r, inputFields)
          IN  /\ hResult' = r
              /\ RecordAndRespond(
                    ExecutionDoc("webhook", IF r.success THEN "success" ELSE r.status,
                                 MethodOf(inputFields), Msg(r.errorMessage), r.attempts),
                    ExecutionDoc("webhook", "error", MethodOf(inputFields), Thrown, <<>>),
                    fields, FALSE, fail, fail2,
                    FailureFields(sanitizeErrorMessage(Thrown)))
    /\ UNCHANGED <<env, req, inputFields, portal, codeRuns, sigVars, ewVars>>
    /\ UNCHANGED auxVars

\* What executeCode can resolve with.
CodeResults ==
    {[NoActionResult EXCEPT !.success = TRUE, !.status = "success", !.output = "user outputs"],
     [NoActionResult EXCEPT !.status = "error", !.errorMessage = "user code threw"],
     [NoActionResult EXCEPT !.status = "error", !.errorMessage = PathText],
     [NoActionResult EXCEPT !.status = "timeout", !.errorMessage = "Execution timed out"]}

\* router.post('/code'), lines 384-555.
CodeHandler ==
    /\ pc = "handler"
    /\ req.route = "code"
    /\ \E inputs \in CodeInputs, found \in PortalLookups, snippetFound \in BOOLEAN,
          r \in CodeResults, fail \in DbFailures, fail2 \in BOOLEAN :
          LET catchDoc == ExecutionDoc("code", "error", "", Thrown, <<>>)
              early(message) ==
                  /\ res' = Json(200, FailureFields(Msg(message)))
                  /\ pc' = "done"
                  /\ UNCHANGED <<hResult, executions, usageWrites, codeRuns>>
          IN  /\ inputFields' = inputs
              /\ IF found = "throws"
                 THEN /\ executions' = ExecutionCreate(executions, catchDoc, fail2).stored
                      /\ res' = Json(200, FailureFields(sanitizeErrorMessage(Thrown)))
                      /\ pc' = "done"
                      /\ UNCHANGED <<portal, hResult, usageWrites, codeRuns>>
                 ELSE /\ portal' = found
                      /\ IF inputs.snippetId # "" /\ ~snippetFound
                         THEN early("Snippet not found")
                         ELSE IF inputs.snippetId = "" /\ inputs.inlineCode > MAX_INLINE_CODE_LENGTH
                         THEN early("Inline code too long")
                         ELSE IF inputs.snippetId = "" /\ inputs.inlineCode = 0
                         THEN early("No code provided")
                         ELSE /\ codeRuns' = codeRuns + 1
                              /\ hResult' = r
                              /\ RecordAndRespond(
                                    ExecutionDoc("code", r.status, "", Msg(r.errorMessage), <<>>),
                                    catchDoc, CodeOutputFields(r), inputs.snippetId # "",
                                    fail, fail2, FailureFields(sanitizeErrorMessage(Thrown)))
    /\ UNCHANGED <<env, req, sigVars, ewVars>>
    /\ UNCHANGED auxVars

\* router.post('/format'), lines 561-1024.  evaluateFormula and the standard
\* operations either give a text or throw.
FormatHandler ==
    /\ pc = "handler"
    /\ req.route = "format"
    /\ \E inputs \in FormatInputs, throws \in BOOLEAN, fail \in DbFailures \ {"save"},
          fail2 \in BOOLEAN :
          LET r == [NoActionResult EXCEPT !.success = TRUE, !.status = "success",
                                          !.output = "formatted"]
              doc == ExecutionDoc("format", "success", "", NoMsg, <<>>)
              catchDoc == ExecutionDoc("format", "error", "", Thrown, <<>>)
              early(message) ==
                  /\ res' = Json(200, FailureFields(Msg(message)))
                  /\ pc' = "done"
                  /\ UNCHANGED <<hResult, executions, usageWrites>>
              failed(fields) ==
                  /\ executions' = ExecutionCreate(executions, catchDoc, fail2).stored
                  /\ res' = Json(200, fields)
                  /\ pc' = "done"
                  /\ UNCHANGED <<hResult, usageWrites>>
          IN  /\ inputFields' = inputs
              /\ IF inputs.customMode \/ (inputs.formula # 0 /\ inputs.operation = "")
                 THEN IF inputs.formula = 0
                      THEN early("No formula specified in custom mode")
                      ELSE IF inputs.formula > MAX_FORMULA_LENGTH
                      THEN early("Formula too long")
                      ELSE IF throws
                      THEN failed(FailureFields(Msg("Formula error: thrown")))
                      ELSE /\ hResult' = r
                           /\ RecordAndRespond(doc, catchDoc, FormatOutputFields(r), FALSE,
                                               fail, fail2,
                                               FailureFields(Msg("Formula error: thrown")))
                 ELSE IF inputs.operation = ""
                 THEN early("No operation specified")
                 ELSE IF inputs.input1 > MAX_INPUT_LENGTH
                 THEN early("input1 too long")
                 ELSE IF inputs.operation = "divide" /\ (ParseInt(inputs.input2).nan \/ ParseInt(inputs.input2).val = 0)
                 THEN early("Cannot divide by zero or invalid divisor")
                 ELSE IF inputs.operation \notin FormatOperations
                 THEN early("Unknown operation")
                 ELSE IF throws
                 THEN failed(FailureFields(sanitizeErrorMessage(Thrown)))
                 ELSE /\ hResult' = r
                      /\ RecordAndRespond(doc, catchDoc, FormatOutputFields(r), FALSE,
                                          fail, fail2,
                                          FailureFields(sanitizeErrorMessage(Thrown)))
    /\ UNCHANGED <<env, req, portal, codeRuns, sigVars, ewVars>>
    /\ UNCHANGED auxVars

(***************************************************************************)
(* The guard on its own, the usage counters, the snippet counter and the    *)
(* secrets of a code request                                               *)
(***************************************************************************)
\* The addresses the guard is asked about: IPv4 addresses by their two leading
\* octets, and IPv6 addresses in the text form the resolver gives.
GuardOctets1 ==
    {0, 9, 10, 11, 100, 127, 128, 169, 172, 192, 223, 224, 225, 239, 240, 241, 254, 255}
GuardOctets2 == {0, 15, 16, 31, 32, 63, 64, 127, 128, 168, 254, 255}

GuardAddrs ==
    {Ip4(a, b, 0, 1) : a \in GuardOctets1, b \in GuardOctets2}
    \cup {Ip4(255, 255, 255, 255), Ip4(93, 184, 216, 34)}
    \cup {Ip6(<<"", "", "1">>), Ip6(<<"fc00", "", "1">>), Ip6(<<"fd00", "", "1">>),
          Ip6(<<"fd12", "3456", "", "1">>), Ip6(<<"fe80", "", "1">>),
          Ip6(<<"fe90", "", "1">>), Ip6(<<"febf", "", "1">>),
          Ip6(<<"2606", "2800", "", "1">>)}

\* parsedUrl.hostname of a url whose host is the address: the dotted form for
\* IPv4, the text in square brackets for IPv6.
UrlHostOf(ip) ==
    IF ip.v = 4 THEN HostIp4(ip.o[1], ip.o[2], ip.o[3], ip.o[4])
    ELSE HostIp6([i \in 1..Len(ip.g) |->
                    IF i = 1 THEN "[" \o ip.g[i]
                    ELSE IF i = Len(ip.g) THEN ip.g[i] \o "]"
                    ELSE ip.g[i]])

GdIdle ==
    /\ gdPc = "off"
    /\ gdAddr = Ip4(0, 0, 0, 0)
    /\ gdUrlVerdict = FALSE
    /\ gdDnsVerdict = FALSE

\* validateWebhookUrl on the address as the host of a url, and isBlockedIP on
\* the address as a DNS result.
GuardCheck ==
    /\ gdPc = "start"
    /\ gdUrlVerdict' = validateWebhookUrl(Url("https:", UrlHostOf(gdAddr), FALSE)).valid
    /\ gdDnsVerdict' = isBlockedIP(gdAddr)
    /\ gdPc' = "checked"
    /\ UNCHANGED <<gdAddr, usVars, snVars, scVars, sigVars, ewVars, rqVars, lateVars>>

NoUsageDoc == [exists |-> FALSE]

UsIdle ==
    /\ usDoc = NoUsageDoc
    /\ usCalls = <<>>

SnIdle ==
    /\ snCount = 0
    /\ snPc = <<>>
    /\ snLoaded = <<>>

ScIdle ==
    /\ scPc = [handler |-> "off", update |-> "none", ids |-> {}]
    /\ scCode = <<>>
    /\ scDocs = <<>>
    /\ scDecrypted = {}
    /\ scWorker = <<>>
    /\ scResult = [status |-> "none"]
    /\ scRecord = [stored |-> FALSE]

ExIdle ==
    /\ exClock = 0
    /\ exTimeout = 0
    /\ exWorker = "off"
    /\ exInbox = <<>>
    /\ exListening = FALSE
    /\ exResolved = FALSE
    /\ exResult = [status |-> "none"]
    /\ exHandled = "none"

CrIdle ==
    /\ crStored = {}
    /\ crPc = <<>>
    /\ crSeen = <<>>

PfIdle ==
    /\ pfPc = "off"
    /\ pfIn = <<>>
    /\ pfOut = <<>>

NoActivity == 0 - 1

RaIdle ==
    /\ raClock = 0
    /\ raStored = NoActivity
    /\ raPc = <<>>
    /\ raRead = <<>>
    /\ raWrites = <<>>

WkIdle ==
    /\ wkPc = "off"
    /\ wkConsole = <<>>
    /\ wkCalls = 0
    /\ wkTimers = <<>>
    /\ wkActive = {}
    /\ wkMessage = [status |-> "none"]

EndIdle == RaIdle /\ WkIdle

LateIdle == ExIdle /\ CrIdle /\ PfIdle /\ EndIdle

AuxIdle == GdIdle /\ UsIdle /\ SnIdle /\ ScIdle /\ LateIdle

EwNext == EwValidate \/ EwResolve \/ EwSingle \/ EwAttempt \/ EwSleep \/ Rebind

InitWebhook ==
    /\ \E u \in WebhookUrls, c \in WebhookContexts, rc \in RetryConfigs, a \in DnsAnswers :
          EwCalled([url |-> u], c, rc, a)
    /\ SvIdle
    /\ RqIdle
    /\ AuxIdle

SpecWebhook == InitWebhook /\ [][EwNext]_vars

InitSig ==
    /\ SvIdle
    /\ EwIdle
    /\ RqIdle
    /\ AuxIdle

SpecSig == InitSig /\ [][SvNext]_vars

(***************************************************************************)
(* The requests of the three action routes                                 *)
(***************************************************************************)
Environments ==
    {[NODE_ENV |-> n, SKIP_SIGNATURE_VERIFICATION |-> f] :
        n \in {"production", "development", "unset"}, f \in BOOLEAN}

Routes == {"webhook", "code", "format"}

\* The signatures HubSpot computes for the request, under each scheme.
SigV1 == Sha256Hex(ClientSecret \o ReqBody)
SigV2 == Sha256Hex(ClientSecret \o ReqMethod \o ReqUri \o ReqBody)
SigV3(text) == HmacSha256Base64(ClientSecret, ReqMethod \o ReqUri \o ReqBody \o text)

\* X-HubSpot-Request-Timestamp: current, older than the window, not a number.
FreshStamp == ToStr(ClockNow - 1000)
StaleStamp == ToStr(ClockNow - WindowMs - 1)
WordStamp == <<"a", "b", "c">>

Timestamps == {NoTimestamp, Timestamp(FreshStamp), Timestamp(StaleStamp), Timestamp(WordStamp)}

\* A signature made with another secret.
ForgedV3(text) == HmacSha256Base64(<<"w">>, ReqMethod \o ReqUri \o ReqBody \o text)

Origins ==
    {NoOrigin, Origin(<<"app", "hubspot", "com">>, "https:"),
     Origin(<<"evil", "example", "com">>, "https:")}

AuthRequests ==
    {[route |-> rt, portalId |-> p, signature |-> s, version |-> v, timestamp |-> t,
      origin |-> o] :
        rt \in Routes, p \in BOOLEAN,
        s \in {NoSignature, SigV1, SigV2, SigV3(FreshStamp), SigV3(StaleStamp),
               SigV3(WordStamp), ForgedV3(FreshStamp)},
        v \in {"", "v1", "v2", "v3"}, t \in Timestamps, o \in Origins}

InitAuth ==
    /\ \E r \in AuthRequests, e \in Environments : Received(r, e)
    /\ SvIdle
    /\ EwIdle
    /\ AuxIdle

SpecAuth == InitAuth /\ [][Middleware]_vars

\* The requests of the pipeline: signed by HubSpot, or sent without a signature.
PipelineRequests ==
    {[route |-> rt, portalId |-> TRUE, signature |-> s, version |-> "v3",
      timestamp |-> Timestamp(FreshStamp), origin |-> NoOrigin] :
        rt \in Routes, s \in {NoSignature, SigV3(FreshStamp), ForgedV3(FreshStamp)}}

PipelineEnvironments ==
    {[NODE_ENV |-> n, SKIP_SIGNATURE_VERIFICATION |-> FALSE] : n \in {"production", "unset"}}

Init ==
    /\ \E r \in PipelineRequests, e \in PipelineEnvironments : Received(r, e)
    /\ SvIdle
    /\ EwIdle
    /\ AuxIdle

Next ==
    \/ Middleware
    \/ WebhookBegin
    \/ EwValidate
    \/ EwResolve
    \/ EwSingle
    \/ EwAttempt
    \/ EwSleep
    \/ WebhookFinish
    \/ CodeHandler
    \/ FormatHandler

Spec == Init /\ [][Next]_vars

(***************************************************************************)
(* Properties of the request pipeline (Spec)                               *)
(***************************************************************************)
\* The middleware called next() for this request.
PassedVerification == verifyWorkflowActionSignature(req, env, ClockNow).next

\* C1: every request that passed signature verification is answered with
\* HTTP 200 and a body holding outputFields, whatever the input (a missing
\* webhook URL included) and whatever fails in the handler.
C1_VerifiedRequestsGet200 ==
    (pc = "done" /\ PassedVerification) => (res.sent /\ res.status = 200)

\* C2: every dispatched invocation has written exactly one Execution document
\* by the time it is answered: never none, never two.
C2_ExactlyOneExecutionRecord ==
    (pc = "done" /\ PassedVerification) => Len(executions) = 1

\* The outputFields the handler builds from the result of the finished action.
FieldsOfResult ==
    CASE req.route = "webhook" -> WebhookOutputFields(hResult, inputFields)
      [] req.route = "code" -> CodeOutputFields(hResult)
      [] OTHER -> FormatOutputFields(hResult)

\* C3: once the action itself has finished, the outputFields answered are those
\* built from its result, whether or not the Execution write or the usage
\* upsert failed; a run that succeeded is reported with success=true.
C3_RecordFailureKeepsOutputs ==
    (pc = "done" /\ hResult # NoActionResult) => res.outputFields = FieldsOfResult

\* C4: for a request whose portal is missing or inactive no connection is
\* opened and no user code runs, and the answer reports success=false.
C4_InactivePortalRunsNothing ==
    portal \in {"missing", "inactive"} =>
        /\ connects = <<>>
        /\ codeRuns = 0
        /\ pc = "done" => res.outputFields.hubhacks_success = "false"

(***************************************************************************)
(* Properties of the middleware (SpecAuth)                                 *)
(***************************************************************************)
\* The deployment says explicitly that it is a development one.
DevelopmentFlagSet(e) == e.NODE_ENV = "development" \/ e.SKIP_SIGNATURE_VERIFICATION

\* C5: a request without a signature header reaches a handler only when the
\* development flag is set; in every other configuration it is answered 401.
C5_UnsignedNeedsDevelopmentFlag ==
    (pc # "received" /\ req.portalId /\ req.signature = NoSignature
        /\ ~DevelopmentFlagSet(env))
    => (pc = "done" /\ res.status = 401)

\* The timestamp is a number within the window around `now`.
WithinWindow(timestamp, now) ==
    LET t == ParseInt(timestamp)
    IN  ~t.nan /\ Abs(now - t.val) <= WindowMs

\* The check the declared version of the request asks for.
DeclaredCheckPasses ==
    CASE req.version = "v3" ->
             /\ req.timestamp.present
             /\ WithinWindow(req.timestamp.text, ClockNow)
             /\ req.signature = SigV3(req.timestamp.text)
      [] req.version = "v2" -> req.signature = SigV2
      [] OTHER -> req.signature = SigV1

\* C8: a request declaring v3 reaches a handler only if the v3 check passes
\* (timestamp present and in the window, HMAC equal), never on a v1 or v2 hash,
\* and a request whose declared check fails is answered 401.
C8_NoSchemeDowngrade ==
    (pc # "received" /\ req.portalId) =>
        /\ (req.version = "v3" /\ pc = "handler") => DeclaredCheckPasses
        /\ (req.signature # NoSignature /\ ~DeclaredCheckPasses)
              => (pc = "done" /\ res.status = 401)

(***************************************************************************)
(* Properties of verifySignatureV3 (SpecSig)                               *)
(***************************************************************************)
\* C6: a call whose timestamp is not within 300 seconds of the current time is
\* rejected, whatever the header holds and whether or not the HMAC matches.
C6_RejectsOutsideWindow ==
    (svPc = "verified" /\ ~WithinWindow(svArgs.timestamp, svNow)) => ~svResult.valid

\* The text the HMAC is computed over.
SignedText(t) == t.method \o t.uri \o t.body \o t.timestamp

\* The fields in which the verifier's tuple differs from the signed one.
Altered ==
    {f \in {"secret", "method", "uri", "body", "timestamp"} : svArgs[f] # svSigned[f]}

\* C7: the signature of a tuple is accepted for that tuple when its timestamp is
\* current; whatever is accepted has the signer's secret and the signed text;
\* and the signature is rejected when exactly one of secret, method, URI, body
\* and timestamp differs from what was signed.
C7_AcceptsSignedRejectsAltered ==
    svPc = "verified" =>
        /\ (svArgs = svSigned /\ WithinWindow(svArgs.timestamp, svNow)) => svResult.valid
        /\ svResult.valid => (svArgs.secret = svSigned.secret
                                /\ SignedText(svArgs) = SignedText(svSigned))
        /\ Cardinality(Altered) = 1 => ~svResult.valid

\* A current timestamp, the body alone altered, and the call rejected.
C7_Witness ==
    /\ svPc = "verified"
    /\ Altered = {"body"}
    /\ WithinWindow(svArgs.timestamp, svNow)
    /\ ~svResult.valid

\* C7 as first stated: the signature is rejected as soon as any of the five
\* differs from what was signed.
C7_RejectsAnyDifference ==
    (svPc = "verified" /\ Altered # {}) => ~svResult.valid

(***************************************************************************)
(* Properties of executeWebhook (SpecWebhook)                              *)
(***************************************************************************)
\* The url after template processing, and its host.
ProcessedUrl == processTemplate(ewConfig.url, ewContext)

\* The guard refused the call: the url, or the answer of the resolver.
GuardRefused ==
    \/ urlChecks >= 1 /\ ~validateWebhookUrl(ProcessedUrl).valid
    \/ dnsQueries >= 1 /\ ~validateResolvedIP(ProcessedUrl.host, ewAddresses).valid

\* C9: a connection is opened only if the processed url passed
\* validateWebhookUrl and, for a hostname, the resolver gave at least one
\* address and no blocked one; a call the guard refused returns success=false
\* with no attempt and retriesUsed = 0, whatever the retry configuration.
C9_GuardBeforeAnyAttempt ==
    /\ connects # <<>> =>
          /\ validateWebhookUrl(ProcessedUrl).valid
          /\ ProcessedUrl.host.kind # "ip4" =>
                /\ ~ewAddresses.err
                /\ Len(ewAddresses.addrs) >= 1
                /\ \A i \in 1..Len(ewAddresses.addrs) : ~isBlockedIP(ewAddresses.addrs[i])
    /\ (ewPc = "returned" /\ GuardRefused) =>
          /\ ~ewResult.result.success
          /\ connects = <<>>
          /\ ewAttempts = <<>>
          /\ ewResult.hasAttempts
          /\ ewResult.attempts = <<>>
          /\ ewResult.retriesUsed = 0

\* A call with retries enabled whose hostname resolved to a blocked address.
C9_Witness ==
    /\ ewPc = "returned"
    /\ MergeRetry(ewRetry).maxRetries >= 1
    /\ dnsQueries = 1
    /\ \E i \in 1..Len(ewAddresses.addrs) : isBlockedIP(ewAddresses.addrs[i])
    /\ ~ewResult.result.success
    /\ ewResult.retriesUsed = 0

\* C10: in a call for a hostname the url is validated once and the name is
\* resolved once, both before the first connection; every connection that
\* needs a lookup gets an address of the pinned set, the first hop of every
\* attempt included, so an address the system resolver answers with later is
\* never connected to.
C10_ValidatedOncePinnedAlways ==
    ProcessedUrl.host.kind # "ip4" =>
        /\ urlChecks <= 1
        /\ dnsQueries <= 1
        /\ connects # <<>> => (urlChecks = 1 /\ dnsQueries = 1)
        /\ \A i \in 1..Len(connects) :
              /\ connects[i].hop = 0 => connects[i].via = "pinned"
              /\ connects[i].via # "literal" =>
                    /\ connects[i].via = "pinned"
                    /\ connects[i].addr \in Range(ewResolved)
                    /\ connects[i].addr \in Range(ewAddresses.addrs)
                    /\ ~isBlockedIP(connects[i].addr)

\* A call that made a retry after the resolver had started to answer with a
\* blocked address.
C10_Witness ==
    /\ ewPc = "returned"
    /\ Len(ewAttempts) >= 2
    /\ Len(connects) >= 2
    /\ sysDns # ewAddresses
    /\ \E i \in 1..Len(sysDns.addrs) : isBlockedIP(sysDns.addrs[i])

\* C11: a redirect is followed only to a target that passed the guard: no
\* connection made after a redirect goes to a blocked address.
C11_RedirectsRevalidated ==
    \A i \in 1..Len(connects) : connects[i].hop >= 1 => ~isBlockedIP(connects[i].addr)

\* The number of requests sent: each attempt opens one first-hop connection.
AttemptsMade == Cardinality({i \in 1..Len(connects) : connects[i].hop = 0})

\* The call went through the retry loop and has returned.
LoopReturned == ewPc = "returned" /\ ~GuardRefused /\ MergeRetry(ewRetry).maxRetries >= 1

\* C13: with retries enabled the loop makes no attempt after a 2xx response,
\* makes exactly one attempt when the first result is status 400, and makes
\* exactly maxRetries + 1 attempts when every result is status 429.
C13_LoopStopsWhereItShould ==
    /\ MergeRetry(ewRetry).maxRetries >= 1 =>
          \A i \in 1..Len(ewAttempts) : ewAttempts[i].status = "success" => i = Len(ewAttempts)
    /\ LoopReturned =>
          /\ Len(ewAttempts) = AttemptsMade
          /\ ewAttempts[1].httpStatusCode = 400 => AttemptsMade = 1
          /\ (\A i \in 1..Len(ewAttempts) : ewAttempts[i].httpStatusCode = 429)
                => AttemptsMade = MergeRetry(ewRetry).maxRetries + 1

\* A call that met 429 at every attempt and gave up after the last retry.
C13_Witness ==
    /\ LoopReturned
    /\ AttemptsMade = MergeRetry(ewRetry).maxRetries + 1
    /\ AttemptsMade >= 3
    /\ \A i \in 1..Len(ewAttempts) : ewAttempts[i].httpStatusCode = 429

\* C15: the time of a call, attempts and sleeps together, stays within the
\* deadline of the request.
C15_WithinDeadline == ewElapsed <= TimeoutMs

\* The capped exponential delay of retry k.
CappedDelay(k) ==
    LET retry == MergeRetry(ewRetry)
    IN  Min(retry.initialDelayMs * Pow(retry.backoffMultiplier, k), retry.maxDelayMs)

\* The loop has slept, and ewDelay is the delay of its last sleep.
HasSlept == ewAttempt >= 1 /\ ewPc # "sleep"

\* C17: the backoff before retry k is min(initial * 2^k, max) with a jitter of
\* at most a quarter, rounded to the nearest millisecond, and the loop does
\* not sleep before the first attempt.
C17_BackoffWithinJitter ==
    /\ HasSlept =>
          /\ 4 * ewDelay >= 3 * CappedDelay(ewAttempt - 1) - 2
          /\ 4 * ewDelay <= 5 * CappedDelay(ewAttempt - 1) + 2
    /\ ewPc = "sleep" => Len(ewAttempts) >= 1
    /\ (AttemptsMade = 0 /\ ewPc # "returned") => (ewDelay = 0 /\ ewElapsed = 0)

\* A second retry whose delay is computed from the cap.
C17_Witness ==
    /\ HasSlept
    /\ ewAttempt = 2
    /\ CappedDelay(1) = MergeRetry(ewRetry).maxDelayMs
    /\ ewDelay > CappedDelay(1)

\* C17 as first stated: the backoff lies in [0.75, 1.25] times the capped delay.
C17_BackoffInInterval ==
    HasSlept =>
        /\ 4 * ewDelay >= 3 * CappedDelay(ewAttempt - 1)
        /\ 4 * ewDelay <= 5 * CappedDelay(ewAttempt - 1)

(***************************************************************************)
(* The guard on its own (SpecGuard)                                        *)
(***************************************************************************)
InitGuard ==
    /\ gdPc = "start"
    /\ gdAddr \in GuardAddrs
    /\ gdUrlVerdict = FALSE
    /\ gdDnsVerdict = FALSE
    /\ UsIdle /\ SnIdle /\ ScIdle /\ LateIdle
    /\ SvIdle
    /\ EwIdle
    /\ RqIdle

SpecGuard == InitGuard /\ [][GuardCheck]_vars

\* First groups of unique-local (fc00::/7) and link-local (fe80::/10) addresses.
UniqueLocalGroups == {"fc00", "fd00", "fd12"}
LinkLocalGroups == {"fe80", "fe90", "febf"}

\* The address is in one of the ranges that must be refused.
InRefusedRange(ip) ==
    IF ip.v = 4
    THEN \/ ip.o[1] \in {0, 10, 127}
         \/ ip.o[1] = 100 /\ ip.o[2] \in 64..127
         \/ ip.o[1] = 169 /\ ip.o[2] = 254
         \/ ip.o[1] = 172 /\ ip.o[2] \in 16..31
         \/ ip.o[1] = 192 /\ ip.o[2] = 168
         \/ ip.o[1] \in 224..255
    ELSE \/ ip.g = <<"", "", "1">>
         \/ ip.g[1] \in UniqueLocalGroups \cup LinkLocalGroups

\* C12: an address of the private, loopback, link-local, carrier-grade NAT,
\* multicast, reserved or broadcast ranges is refused both as the host literal
\* of a url and as a DNS result.
C12_RefusedRangesAreBlocked ==
    (gdPc = "checked" /\ InRefusedRange(gdAddr)) => (~gdUrlVerdict /\ gdDnsVerdict)

(***************************************************************************)
(* Retries and attempt records of the webhook route (Spec)                 *)
(***************************************************************************)
\* The retry input is true; when the field is not set it defaults to 'true'.
RetryInput == inputFields.retryEnabled \in {"", "true"}

\* The entry of an attempt that failed in a way the dispatcher retries.
RetryableEntry(e) ==
    /\ e.status # "success"
    /\ \/ e.status = "timeout"
       \/ e.httpStatusCode \in DEFAULT_RETRY_CONFIG.retryableStatusCodes
       \/ e.errorMessage \in DEFAULT_RETRY_CONFIG.retryableErrors

\* executeWebhook was called for this request and sent at least one request.
Dispatched == pc \in {"webhook", "done"} /\ inputFields.hasUrl /\ ewPc = "returned" /\ ~GuardRefused

C16_OneEntryPerAttempt ==
    (pc = "done" /\ req.route = "webhook" /\ Dispatched /\ Len(executions) >= 1
        /\ executions[1].errorMessage # Thrown)
    => Len(executions[1].retryAttempts) = AttemptsMade

(***************************************************************************)
(* Daily usage counters: Usage.recordExecution (SpecUsage)                 *)
(***************************************************************************)
MaxUsageCalls == 3

UsageDurations == {0, 1, 2}

UsageCalls ==
    [actionType : {"webhook", "code", "format"},
     status : {"success", "error", "timeout", "cancelled"},
     executionTimeMs : UsageDurations,
     workflowId : {"", "wf-1", "wf-2"}]

\* $ifNull: the replacement for a field the document does not have.
IfNull(v, d) == IF v = Absent THEN d ELSE v

\* $add is null as soon as one operand is null or missing.
AddOp(a, b) == IF a = Absent \/ b = Absent THEN Absent ELSE a + b

\* $round to zero places of n / d: the nearest integer, a half to the even one.
RoundDivide(n, d) ==
    LET q == n \div d
        r == n % d
    IN  IF 2 * r < d THEN q
        ELSE IF 2 * r > d THEN q + 1
        ELSE IF q % 2 = 0 THEN q ELSE q + 1

\* The document an upsert starts from: the fields of the filter and nothing
\* else (a pipeline update carries no $setOnInsert, so no schema default).
UpsertedUsage ==
    [exists |-> TRUE,
     webhookExecutions |-> Absent, codeExecutions |-> Absent, formatExecutions |-> Absent,
     successCount |-> Absent, errorCount |-> Absent, timeoutCount |-> Absent,
     totalExecutionTimeMs |-> Absent, avgExecutionTimeMs |-> Absent,
     maxExecutionTimeMs |-> Absent, uniqueWorkflows |-> Absent, workflowIds |-> {}]

actionTypeField(executionData) ==
    IF executionData.actionType = "webhook" THEN "webhookExecutions"
    ELSE IF executionData.actionType = "format" THEN "formatExecutions"
    ELSE "codeExecutions"

\* The status used as it is given.
UsageStatus_Unvalidated(executionData) == executionData.status

UsageStatus(executionData) ==
    IF executionData.status \in {"success", "error", "timeout"} THEN executionData.status
    ELSE "error"

\* '$field' in a pipeline: null for a field the document does not have.
FieldOf(doc, field) == IF field \in DOMAIN doc THEN doc[field] ELSE Absent

\* $set of one field: the field is made when the document does not have it.
SetField(doc, field, value) ==
    [f \in DOMAIN doc \cup {field} |-> IF f = field THEN value ELSE doc[f]]

\* $add: [{ $ifNull: ['$field', 0] }, v]
Incremented(doc, field, v) == SetField(doc, field, IfNull(FieldOf(doc, field), 0) + v)

\* First $set stage: the three increments.
UsageIncrements(doc, executionData) ==
    LET bumped == Incremented(doc, actionTypeField(executionData), 1)
        counted == Incremented(bumped, UsageStatus(executionData) \o "Count", 1)
    IN  Incremented(counted, "totalExecutionTimeMs", executionData.executionTimeMs)

\* Second $set stage: the maximum and the set of workflow ids.
UsageMaxAndWorkflows(doc, executionData) ==
    [doc EXCEPT
        !.maxExecutionTimeMs =
            IF IfNull(@, 0) > executionData.executionTimeMs THEN IfNull(@, 0)
            ELSE executionData.executionTimeMs,
        !.workflowIds =
            IF executionData.workflowId # "" THEN @ \cup {executionData.workflowId} ELSE @]

\* Third $set stage: the derived average and the number of workflows.
UsageDerived(doc) ==
    LET executionsSum ==
            AddOp(AddOp(doc.webhookExecutions, doc.codeExecutions),
                  IfNull(doc.formatExecutions, 0))
    IN  [doc EXCEPT
            !.avgExecutionTimeMs =
                IF executionsSum # Absent /\ executionsSum > 0
                THEN RoundDivide(doc.totalExecutionTimeMs, executionsSum)
                ELSE 0,
            !.uniqueWorkflows = Cardinality(doc.workflowIds)]

\* findOneAndUpdate with the pipeline and upsert: one atomic step on the document.
recordExecution(doc, executionData) ==
    UsageDerived(
        UsageMaxAndWorkflows(
            UsageIncrements(IF doc.exists THEN doc ELSE UpsertedUsage, executionData),
            executionData))

RecordExecution ==
    /\ Len(usCalls) < MaxUsageCalls
    /\ \E executionData \in UsageCalls :
          /\ usDoc' = recordExecution(usDoc, executionData)
          /\ usCalls' = Append(usCalls, executionData)
    /\ UNCHANGED <<gdVars, snVars, scVars, sigVars, ewVars, rqVars, lateVars>>

InitUsage ==
    /\ UsIdle
    /\ GdIdle /\ SnIdle /\ ScIdle /\ LateIdle
    /\ SvIdle
    /\ EwIdle
    /\ RqIdle

SpecUsage == InitUsage /\ [][RecordExecution]_vars

RECURSIVE DurationSum(_)
DurationSum(calls) ==
    IF calls = <<>> THEN 0 ELSE Head(calls).executionTimeMs + DurationSum(Tail(calls))

LargestDuration ==
    CHOOSE d \in {usCalls[i].executionTimeMs : i \in 1..Len(usCalls)} :
        \A i \in 1..Len(usCalls) : usCalls[i].executionTimeMs <= d

DistinctWorkflows == {usCalls[i].workflowId : i \in 1..Len(usCalls)} \ {""}

\* C18: after N recordExecution calls for one tenant and day the per-kind counts
\* add up to N, totalExecutionTimeMs is the sum of the durations,
\* avgExecutionTimeMs is that sum divided by N, maxExecutionTimeMs is the
\* largest duration and uniqueWorkflows is the number of distinct workflow ids.
C18_UsageTotals ==
    Len(usCalls) >= 1 =>
        /\ IfNull(usDoc.webhookExecutions, 0) + IfNull(usDoc.codeExecutions, 0)
              + IfNull(usDoc.formatExecutions, 0) = Len(usCalls)
        /\ usDoc.totalExecutionTimeMs = DurationSum(usCalls)
        /\ usDoc.avgExecutionTimeMs * Len(usCalls) = DurationSum(usCalls)
        /\ usDoc.maxExecutionTimeMs = LargestDuration
        /\ usDoc.uniqueWorkflows = Cardinality(DistinctWorkflows)

(***************************************************************************)
(* Snippet statistics of the code handler (SpecSnippet)                    *)
(***************************************************************************)
MaxSnippetRequests == 4

SnippetRequests == 1..MaxSnippetRequests

\* executionCount of a snippet that was never run (the schema default).
InitialExecutionCount == 0

\* Snippet.findOne: the request holds its own copy of the document.
SnippetLoad(r) ==
    /\ snPc[r] = "start"
    /\ snLoaded' = [snLoaded EXCEPT ![r] = snCount]
    /\ snPc' = [snPc EXCEPT ![r] = "loaded"]
    /\ UNCHANGED <<snCount, gdVars, usVars, scVars, sigVars, ewVars, rqVars, lateVars>>

\* snippetDoc.executionCount += 1; snippetDoc.save(): the copy is incremented
\* and save() writes the new value of the modified path.
SnippetSave(r) ==
    /\ snPc[r] = "loaded"
    /\ snCount' = snLoaded[r] + 1
    /\ snPc' = [snPc EXCEPT ![r] = "done"]
    /\ UNCHANGED <<snLoaded, gdVars, usVars, scVars, sigVars, ewVars, rqVars, lateVars>>

SnippetLoads == \E r \in SnippetRequests : SnippetLoad(r)

SnippetSaves == \E r \in SnippetRequests : SnippetSave(r)

SnippetNext == SnippetLoads \/ SnippetSaves

InitSnippet ==
    /\ snCount = InitialExecutionCount
    /\ snPc = [r \in SnippetRequests |-> "start"]
    /\ snLoaded = [r \in SnippetRequests |-> 0]
    /\ GdIdle /\ UsIdle /\ ScIdle /\ LateIdle
    /\ SvIdle
    /\ EwIdle
    /\ RqIdle

SpecSnippet == InitSnippet /\ [][SnippetNext]_vars

\* C19: once N code executions of one snippet have finished, whatever their
\* interleaving, executionCount has grown by exactly N.
C19_NoLostUpdate ==
    (\A r \in SnippetRequests : snPc[r] = "done")
    => snCount = InitialExecutionCount + MaxSnippetRequests

(***************************************************************************)
(* Secrets of a code action (SpecSecrets)                                  *)
(***************************************************************************)
MaxCodeLen == 4

\* The source text, cut into the pieces the scan distinguishes.
CodeTokens == {"secrets.", "secrets['", "secrets[\"", "']", "\"]", "A", "B", "C", "x"}

CodeSources == UNION {[1..n -> CodeTokens] : n \in 0..MaxCodeLen}

SecretNames == {<<"A">>, <<"A", "B">>, <<"C">>}

\* The Secret documents of the portal; intact tells whether decrypt() succeeds.
SecretDocSets ==
    {[name \in SecretNames |->
         [name |-> name, intact |-> name \in ok, usageCount |-> 0, lastUsedAt |-> Absent]] :
        ok \in SUBSET SecretNames}

\* String.prototype.includes: a scan for the first position where pat starts.
RECURSIVE Includes(_, _)
Includes(text, pat) ==
    IF Len(pat) > Len(text) THEN FALSE
    ELSE IF SubSeq(text, 1, Len(pat)) = pat THEN TRUE
    ELSE Includes(Tail(text), pat)

\* A run that treats every secret of the portal as referenced.
isReferenced_Always(code, name) == TRUE

isReferenced(code, name) ==
    \/ Includes(code, <<"secrets.">> \o name)
    \/ Includes(code, <<"secrets['">> \o name \o <<"']">>)
    \/ Includes(code, <<"secrets[\"">> \o name \o <<"\"]">>)

Plaintext(name) == <<"plaintext of">> \o name

Null == <<"null">>

\* The loop over secretDocs: the secrets object and secretUpdateIds it builds.
\* The loop is synchronous, so it is one step.
ResolveSecrets ==
    /\ scPc.handler = "start"
    /\ LET referenced == {n \in SecretNames : isReferenced(scCode, n)}
       IN  /\ scDecrypted' = referenced
           /\ scWorker' = [n \in referenced |->
                              IF scDocs[n].intact THEN Plaintext(n) ELSE Null]
           /\ scPc' = [handler |-> "resolved",
                       update |-> IF {n \in referenced : scDocs[n].intact} # {}
                                  THEN "pending" ELSE "none",
                       ids |-> {n \in referenced : scDocs[n].intact}]
    /\ UNCHANGED <<scCode, scDocs, scResult, scRecord, gdVars, usVars, snVars, sigVars, ewVars,
                   rqVars, lateVars>>

\* Secret.updateMany, not awaited: it is applied at some later moment.
UpdateManyApplied ==
    /\ scPc.update = "pending"
    /\ scDocs' = [n \in SecretNames |->
                     IF n \in scPc.ids
                     THEN [scDocs[n] EXCEPT !.usageCount = @ + 1, !.lastUsedAt = ClockNow]
                     ELSE scDocs[n]]
    /\ scPc' = [scPc EXCEPT !.update = "done"]
    /\ UNCHANGED <<scCode, scDecrypted, scWorker, scResult, scRecord, gdVars, usVars, snVars,
                   sigVars, ewVars, rqVars, lateVars>>

\* Secret.updateMany rejects: the .catch logs it and nothing is written.
UpdateManyFailed ==
    /\ scPc.update = "pending"
    /\ scPc' = [scPc EXCEPT !.update = "failed"]
    /\ UNCHANGED <<scCode, scDocs, scDecrypted, scWorker, scResult, scRecord, gdVars, usVars,
                   snVars, sigVars, ewVars, rqVars, lateVars>>

\* What a user source can make the worker post: it reads only the frozen
\* secrets object it was given, and either returns an output object holding any
\* of those values or throws an error whose message it chooses.
WorkerResults(secrets) ==
    {[success |-> TRUE, status |-> "success",
      output |-> [n \in copied |-> secrets[n]], errorMessage |-> <<>>] :
        copied \in SUBSET (DOMAIN secrets)}
    \cup {[success |-> FALSE, status |-> "error", output |-> <<>>, errorMessage |-> m] :
             m \in {<<"boom">>} \cup {secrets[n] : n \in DOMAIN secrets}}

\* executeCode({code, inputs, secrets, ...}): the worker receives scWorker.
ExecuteWithSecrets ==
    /\ scPc.handler = "resolved"
    /\ scResult' \in WorkerResults(scWorker)
    /\ scPc' = [scPc EXCEPT !.handler = "executed"]
    /\ UNCHANGED <<scCode, scDocs, scDecrypted, scWorker, scRecord, gdVars, usVars, snVars,
                   sigVars, ewVars, rqVars, lateVars>>

\* Execution.create of the code action: outputData and errorMessage are the
\* fields of the result as they are.
RecordCodeExecution ==
    /\ scPc.handler = "executed"
    /\ scRecord' = [stored |-> TRUE, actionType |-> "code", status |-> scResult.status,
                    outputData |-> scResult.output, errorMessage |-> scResult.errorMessage]
    /\ scPc' = [scPc EXCEPT !.handler = "recorded"]
    /\ UNCHANGED <<scCode, scDocs, scDecrypted, scWorker, scResult, gdVars, usVars, snVars,
                   sigVars, ewVars, rqVars, lateVars>>

SecretsNext ==
    \/ ResolveSecrets
    \/ UpdateManyApplied
    \/ UpdateManyFailed
    \/ ExecuteWithSecrets
    \/ RecordCodeExecution

InitSecrets ==
    /\ scPc = [handler |-> "start", update |-> "none", ids |-> {}]
    /\ scCode \in CodeSources
    /\ scDocs \in SecretDocSets
    /\ scDecrypted = {}
    /\ scWorker = <<>>
    /\ scResult = [status |-> "none"]
    /\ scRecord = [stored |-> FALSE]
    /\ GdIdle /\ UsIdle /\ SnIdle /\ LateIdle
    /\ SvIdle
    /\ EwIdle
    /\ RqIdle

SpecSecrets == InitSecrets /\ [][SecretsNext]_vars

\* The name occurs in the text in one of the three written forms.
Appears(name) ==
    \E i \in 1..Len(scCode) :
        \/ /\ scCode[i] = "secrets."
           /\ i + Len(name) <= Len(scCode)
           /\ \A k \in 1..Len(name) : scCode[i + k] = name[k]
        \/ /\ i + Len(name) + 1 <= Len(scCode)
           /\ \A k \in 1..Len(name) : scCode[i + k] = name[k]
           /\ \/ scCode[i] = "secrets['" /\ scCode[i + Len(name) + 1] = "']"
              \/ scCode[i] = "secrets[\"" /\ scCode[i + Len(name) + 1] = "\"]"

\* C20: a secret is decrypted, passed to the worker or counted as used only if
\* its name appears in the source as secrets.NAME, secrets['NAME'] or
\* secrets["NAME"]; the counter rises by one for all resolved secrets in one
\* update, and a secret that is not referenced is left as it was.
C20_OnlyReferencedSecrets ==
    /\ \A n \in SecretNames :
          /\ n \in scDecrypted => Appears(n)
          /\ n \in DOMAIN scWorker => Appears(n)
          /\ scDocs[n].usageCount \in {0, 1}
          /\ scDocs[n].usageCount = 1 =>
                (Appears(n) /\ n \in scDecrypted /\ scDocs[n].lastUsedAt = ClockNow)
          /\ ~Appears(n) =>
                /\ n \notin scDecrypted
                /\ n \notin DOMAIN scWorker
                /\ scDocs[n].usageCount = 0
                /\ scDocs[n].lastUsedAt = Absent
    /\ scPc.update = "done" =>
          \A n \in SecretNames :
              scDocs[n].usageCount = (IF n \in scPc.ids THEN 1 ELSE 0)
    /\ scPc.handler # "start" =>
          \A n \in SecretNames : Appears(n) => n \in scDecrypted

\* Two secrets referenced in the bracket and dot forms were resolved and counted
\* in one update while the third, not referenced, is untouched.
C20_Witness ==
    /\ scPc.handler = "executed"
    /\ scPc.update = "done"
    /\ scCode = <<"secrets.", "A", "B", "x">>
    /\ scDecrypted = {<<"A">>, <<"A", "B">>}
    /\ scDocs[<<"A">>].usageCount = 1
    /\ scDocs[<<"A", "B">>].usageCount = 1
    /\ scDocs[<<"C">>].usageCount = 0
    /\ <<"C">> \notin DOMAIN scWorker

\* The plaintexts of the portal's secrets.
SecretValues == {Plaintext(n) : n \in SecretNames}

\* C21: no decrypted secret value is in a persisted Execution document, whatever
\* the user source does, a source that copies a secret into its output included.
C21_NoPlaintextInRecord ==
    scRecord.stored =>
        /\ \A k \in DOMAIN scRecord.outputData : scRecord.outputData[k] \notin SecretValues
        /\ scRecord.errorMessage \notin SecretValues

(***************************************************************************)
(* executeCode and its worker (SpecExec)                                   *)
(***************************************************************************)
\* Time is counted in ticks of 500 ms: the grace of the host timer is one tick.
GraceTicks == 1

MaxTimeoutTicks == 3

MaxClock == 5

\* The three messages the worker's main function can post (part_008, 131-154).
WorkerMessages(timeout) ==
    {[success |-> TRUE, status |-> "success", errorMessage |-> ""],
     [success |-> FALSE, status |-> "error", errorMessage |-> "user error"],
     [success |-> FALSE, status |-> "timeout", errorMessage |-> "Execution timed out"]}

\* resolve() of the timer callback, lines 49-55.
TimeoutResult(timeout) ==
    [success |-> FALSE, status |-> "timeout", errorMessage |-> "Execution timed out",
     executionTimeMs |-> timeout]

\* resolve() of the 'error' listener, lines 73-79.
ErrorResult(message) ==
    [success |-> FALSE, status |-> "error", errorMessage |-> message, executionTimeMs |-> 0]

\* resolve() of the 'exit' listener, lines 87-95; code Absent stands for null.
ExitResult(exitCode) ==
    [success |-> FALSE, status |-> IF exitCode = Absent THEN "timeout" ELSE "error",
     errorMessage |-> IF exitCode = Absent THEN "Execution timed out"
                      ELSE "Worker exited unexpectedly",
     executionTimeMs |-> 0]

\* A timer that never comes due.
TimerDue_Never(clock, timeout) == FALSE

\* setTimeout(..., timeout + 500), line 57.
TimerDue(clock, timeout) == clock >= timeout + GraceTicks

\* worker.terminate() that stops nothing.
Terminated_Never(worker) == worker

\* worker.terminate(): a worker that is still alive is stopped.
Terminated(worker) == IF worker \in {"running", "posted"} THEN "terminated" ELSE worker

\* The worker's main function posts its one message.
WorkerPosts ==
    /\ exWorker = "running"
    /\ \E m \in WorkerMessages(exTimeout) :
          exInbox' = Append(exInbox, [type |-> "message", result |-> m])
    /\ exWorker' = "posted"
    /\ UNCHANGED <<exClock, exTimeout, exListening, exResolved, exResult, exHandled>>
    /\ UNCHANGED <<crVars, pfVars, baseVars>>

\* An uncaught exception of the worker thread: 'error', then 'exit' with code 1.
WorkerErrors ==
    /\ exWorker \in {"running", "posted"}
    /\ exInbox' = exInbox \o <<[type |-> "error", message |-> "worker error"],
                               [type |-> "exit", exitCode |-> 1]>>
    /\ exWorker' = "exited"
    /\ UNCHANGED <<exClock, exTimeout, exListening, exResolved, exResult, exHandled>>
    /\ UNCHANGED <<crVars, pfVars, baseVars>>

\* The worker's event loop runs empty and the thread ends.
WorkerExits ==
    /\ exWorker \in {"running", "posted"}
    /\ exInbox' = Append(exInbox, [type |-> "exit", exitCode |-> 0])
    /\ exWorker' = "exited"
    /\ UNCHANGED <<exClock, exTimeout, exListening, exResolved, exResult, exHandled>>
    /\ UNCHANGED <<crVars, pfVars, baseVars>>

\* The host's event loop delivers the next event to its listener (lines 59-97);
\* after cleanup() there is no listener and the event is dropped.
HostDeliver ==
    /\ exInbox # <<>>
    /\ exInbox' = Tail(exInbox)
    /\ LET event == Head(exInbox)
       IN  IF exListening /\ ~exResolved
           THEN /\ exResolved' = TRUE
                /\ exListening' = FALSE
                /\ exHandled' = event.type
                /\ exResult' = IF event.type = "message" THEN event.result
                               ELSE IF event.type = "error" THEN ErrorResult(event.message)
                               ELSE ExitResult(event.exitCode)
                /\ exWorker' = IF event.type = "exit" THEN exWorker ELSE Terminated(exWorker)
           ELSE UNCHANGED <<exResolved, exListening, exHandled, exResult, exWorker>>
    /\ UNCHANGED <<exClock, exTimeout>>
    /\ UNCHANGED <<crVars, pfVars, baseVars>>

\* The timer callback, lines 44-57.
HostTimer ==
    /\ exListening
    /\ TimerDue(exClock, exTimeout)
    /\ IF ~exResolved
       THEN /\ exResolved' = TRUE
            /\ exHandled' = "timer"
            /\ exWorker' = Terminated(exWorker)
            /\ exResult' = TimeoutResult(exTimeout)
       ELSE UNCHANGED <<exResolved, exHandled, exWorker, exResult>>
    /\ exListening' = FALSE
    /\ UNCHANGED <<exClock, exTimeout, exInbox>>
    /\ UNCHANGED <<crVars, pfVars, baseVars>>

\* Time passes; an armed timer that is due runs before time passes further.
ExTick ==
    /\ exClock < MaxClock
    /\ ~(exListening /\ TimerDue(exClock, exTimeout))
    /\ exClock' = exClock + 1
    /\ UNCHANGED <<exTimeout, exWorker, exInbox, exListening, exResolved, exResult, exHandled>>
    /\ UNCHANGED <<crVars, pfVars, baseVars>>

ExecNext == WorkerPosts \/ WorkerErrors \/ WorkerExits \/ HostDeliver \/ HostTimer \/ ExTick

\* The state after the Promise executor ran (lines 25-57): the worker is
\* started, the listeners are attached and the timer is armed.
InitExec ==
    /\ exClock = 0
    /\ exTimeout \in 1..MaxTimeoutTicks
    /\ exWorker = "running"
    /\ exInbox = <<>>
    /\ exListening = TRUE
    /\ exResolved = FALSE
    /\ exResult = [status |-> "none"]
    /\ exHandled = "none"
    /\ CrIdle /\ PfIdle /\ EndIdle
    /\ GdIdle /\ UsIdle /\ SnIdle /\ ScIdle
    /\ SvIdle
    /\ EwIdle
    /\ RqIdle

\* The host's event loop delivers queued events and runs due timers, and time
\* passes; the worker is under no obligation to do anything.
SpecExec ==
    /\ InitExec
    /\ [][ExecNext]_vars
    /\ WF_vars(HostDeliver)
    /\ WF_vars(HostTimer)
    /\ WF_vars(ExTick)

\* The promise is not resolved later than the timer's due time, and a call
\* resolved by the timer has the timeout result and a terminated worker.
TimerOutcome ==
    /\ ~exResolved => exClock <= exTimeout + GraceTicks
    /\ (exResolved /\ exHandled = "timer") =>
          /\ exResult = TimeoutResult(exTimeout)
          /\ exResult.success = FALSE
          /\ exWorker \in {"terminated", "exited"}
          /\ exClock >= exTimeout + GraceTicks
    /\ (exResolved /\ exClock < exTimeout + GraceTicks) => exHandled # "timer"

\* C22: executeCode always eventually resolves; when the worker delivers no
\* message, raises no error and does not exit before timeout + 500 ms, the
\* host timer fires, the worker is terminated and the result is success =
\* false with status timeout.
C22_AlwaysResolves == <>exResolved /\ []TimerOutcome

\* The worker stayed silent and the timer resolved the call.
C22_Witness ==
    /\ exResolved
    /\ exHandled = "timer"
    /\ exInbox = <<>>
    /\ exWorker = "terminated"
    /\ exResult.status = "timeout"

(***************************************************************************)
(* User outputs of a code action (SpecOutputs)                             *)
(***************************************************************************)
MaxOutputKeys == 6

\* JavaScript values a user source can produce.
Num(n) == [type |-> "number", text |-> ToStr(n)]

Str(t) == [type |-> "string", text |-> t]

Undefined == [type |-> "undefined", text |-> <<>>]

\* String(value).
StringOf(value) == Str(value.text)

OutputKeys == <<"a", "b", "c", "d", "e", "f", "g">>

\* What a user source does: the properties it sets on `output`, in order, and
\* the value of its return statement (Undefined when it has none).
UserPrograms ==
    {[assigned |-> [i \in 1..n |-> [key |-> OutputKeys[i],
                                     value |-> IF i \in nums THEN Num(i) ELSE Str(<<OutputKeys[i]>>)]],
      returned |-> r] :
        n \in 0..MaxOutputKeys, nums \in SUBSET {1, 2, 3}, r \in {Undefined, Num(5), Str(<<"x">>)}}

\* The worker (part_008, 88-137): the wrapper awaits the user function, drops
\* what it returns and returns `output`; the message carries
\* result || sandbox.output, the same object.
WorkerOutput(program) == program.assigned

\* Lines 488-491 of the handler: the properties of result.output are spread
\* into outputFields under their own names and with their own values.
CodeUserOutputs(output) == output

BuildOutputs ==
    /\ pfPc = "ready"
    /\ pfOut' = CodeUserOutputs(WorkerOutput(pfIn))
    /\ pfPc' = "done"
    /\ UNCHANGED <<pfIn, exVars, crVars, baseVars>>

InitOutputs ==
    /\ pfPc = "ready"
    /\ pfIn \in UserPrograms
    /\ pfOut = <<>>
    /\ ExIdle /\ CrIdle /\ EndIdle
    /\ GdIdle /\ UsIdle /\ SnIdle /\ ScIdle
    /\ SvIdle
    /\ EwIdle
    /\ RqIdle

SpecOutputs == InitOutputs /\ [][BuildOutputs]_vars

\* The outputs the response is to carry for a result.
ExpectedOutputs(program) ==
    IF program.returned # Undefined
    THEN <<[key |-> "output_1", value |-> StringOf(program.returned)]>>
    ELSE [i \in 1..Min(5, Len(program.assigned)) |->
             [key |-> "output_" \o ToStr(i)[1], value |-> StringOf(program.assigned[i].value)]]

\* C23: the response of a code action carries at most five user outputs: a
\* non-object result becomes output_1 = String(result), an object result gives
\* its first five own-property values in insertion order, each as a string.
C23_FiveStringOutputs ==
    pfPc = "done" =>
        /\ Len(pfOut) <= 5
        /\ pfOut = ExpectedOutputs(pfIn)

(***************************************************************************)
(* Error strings that leave the handlers (Spec)                            *)
(***************************************************************************)
\* The fixed texts the handlers write themselves.
HandlerLiterals ==
    {"Missing webhook URL", "Snippet not found", "Inline code too long", "No code provided",
     "No formula specified in custom mode", "Formula too long", "No operation specified",
     "input1 too long", "Cannot divide by zero or invalid divisor", "Unknown operation"}

\* The error strings of the response and of the stored Execution documents.
ErrorStrings ==
    ({res.outputFields.hubhacks_error} \cup {executions[i].errorMessage : i \in 1..Len(executions)})
        \ {NoMsg}

\* C24: every error string in outputFields or in an Execution document has
\* passed sanitizeErrorMessage and so holds no file path and no connection
\* string, be it a message of executeWebhook or executeCode or of a thrown
\* exception.
C24_ErrorsSanitized ==
    \A m \in ErrorStrings :
        /\ m.text \notin LeakyTexts
        /\ m.sanitized \/ m.text \in HandlerLiterals

(***************************************************************************)
(* Creation of secrets: POST /api/secrets (SpecCreate)                     *)
(***************************************************************************)
MaxCreateRequests == 4

\* portal.settings.maxSecrets of the portal of the requests.
MaxSecretsCap == 2

CreateRequests == 1..MaxCreateRequests

\* The name each request asks for; the fourth repeats the first.
CreateNames == <<"API_KEY", "TOKEN", "PASSWORD", "API_KEY", "DB_URL", "TOKEN">>

\* Secret.countDocuments and the limit check, lines 47-54.
CreateCount(r) ==
    /\ crPc[r] = "start"
    /\ crSeen' = [crSeen EXCEPT ![r] = Cardinality(crStored)]
    /\ crPc' = [crPc EXCEPT ![r] = IF Cardinality(crStored) >= MaxSecretsCap
                                   THEN "limit reached" ELSE "counted"]
    /\ UNCHANGED <<crStored, exVars, pfVars, baseVars>>

\* Secret.findOne for a secret of the same name, lines 56-64.
CreateFindExisting(r) ==
    /\ crPc[r] = "counted"
    /\ crPc' = [crPc EXCEPT ![r] = IF CreateNames[r] \in crStored
                                   THEN "duplicate" ELSE "checked"]
    /\ UNCHANGED <<crStored, crSeen, exVars, pfVars, baseVars>>

\* Secret.create, lines 66-77; a second document of the same name is refused
\* by the unique index (error 11000, lines 89-91).
CreateStore(r) ==
    /\ crPc[r] = "checked"
    /\ IF CreateNames[r] \in crStored
       THEN /\ crPc' = [crPc EXCEPT ![r] = "duplicate"]
            /\ UNCHANGED crStored
       ELSE /\ crStored' = crStored \cup {CreateNames[r]}
            /\ crPc' = [crPc EXCEPT ![r] = "created"]
    /\ UNCHANGED <<crSeen, exVars, pfVars, baseVars>>

CreateCounts == \E r \in CreateRequests : CreateCount(r)

CreateFinds == \E r \in CreateRequests : CreateFindExisting(r)

CreateStores == \E r \in CreateRequests : CreateStore(r)

CreateNext == CreateCounts \/ CreateFinds \/ CreateStores

InitCreate ==
    /\ crStored = {}
    /\ crPc = [r \in CreateRequests |-> "start"]
    /\ crSeen = [r \in CreateRequests |-> 0]
    /\ ExIdle /\ PfIdle /\ EndIdle
    /\ GdIdle /\ UsIdle /\ SnIdle /\ ScIdle
    /\ SvIdle
    /\ EwIdle
    /\ RqIdle

SpecCreate == InitCreate /\ [][CreateNext]_vars

\* C25: whatever the sequence and interleaving of the creation requests of one
\* portal, it never has more stored secrets than its maxSecrets, and a
\* creation that finds the count at the cap is rejected and stores nothing.
C25_CapNeverExceeded ==
    /\ Cardinality(crStored) <= MaxSecretsCap
    /\ \A r \in CreateRequests :
          crPc[r] = "limit reached" =>
              /\ crSeen[r] >= MaxSecretsCap
              /\ CreateNames[r] \in crStored =>
                    \E q \in CreateRequests \ {r} :
                        CreateNames[q] = CreateNames[r] /\ crPc[q] = "created"

(***************************************************************************)
(* Formula evaluation of the format action (SpecFormula)                   *)
(***************************************************************************)
\* Texts are sequences of characters.  Numbers are decimals with two places,
\* held as hundredths; the formulas evaluated below stay within them.
LowerLetters == <<"a", "b", "c", "d", "e", "f", "g", "h", "i", "j", "k", "l", "m", "n", "o", "p", "q", "r", "s", "t", "u", "v", "w", "x", "y", "z">>

UpperLetters == <<"A", "B", "C", "D", "E", "F", "G", "H", "I", "J", "K", "L", "M", "N", "O", "P", "Q", "R", "S", "T", "U", "V", "W", "X", "Y", "Z">>

IsLower(c) == \E i \in 1..26 : LowerLetters[i] = c

IsUpper(c) == \E i \in 1..26 : UpperLetters[i] = c

toUpperChar(c) ==
    IF IsLower(c) THEN UpperLetters[CHOOSE i \in 1..26 : LowerLetters[i] = c] ELSE c

toLowerChar(c) ==
    IF IsUpper(c) THEN LowerLetters[CHOOSE i \in 1..26 : UpperLetters[i] = c] ELSE c

\* String.prototype.toUpperCase.
toUpperCase(text) == [i \in 1..Len(text) |-> toUpperChar(text[i])]

\* \w of a regular expression.
IsWordChar(c) == IsDigit(c) \/ IsLower(c) \/ IsUpper(c) \/ c = "_"

\* The text from position k on.
Rest(text, k) == SubSeq(text, k, Len(text))

\* The first position from `from` on that holds c, 0 when there is none.
IndexFrom(text, c, from) ==
    IF \E i \in from..Len(text) : text[i] = c
    THEN CHOOSE i \in from..Len(text) :
             text[i] = c /\ \A j \in from..(i - 1) : text[j] # c
    ELSE 0

\* The first position from `from` on that holds no space (\s*).
SkipSpaces(text, from) ==
    IF \E i \in from..Len(text) : text[i] # " "
    THEN CHOOSE i \in from..Len(text) :
             text[i] # " " /\ \A j \in from..(i - 1) : text[j] = " "
    ELSE Len(text) + 1

\* String.prototype.trim.
TrimText(text) ==
    IF \A i \in 1..Len(text) : text[i] = " " THEN <<>>
    ELSE LET first == SkipSpaces(text, 1)
             last == CHOOSE i \in 1..Len(text) :
                         text[i] # " " /\ \A j \in (i + 1)..Len(text) : text[j] = " "
         IN  SubSeq(text, first, last)

\* The name of a function, whatever its case (the i flag), and its bracket.
StartsWithName(text, name) ==
    /\ Len(text) >= Len(name)
    /\ \A i \in 1..Len(name) : toLowerChar(text[i]) = name[i]

\* splitArgs, lines 188-206.
RECURSIVE SplitArgsFrom(_, _, _, _)
SplitArgsFrom(text, current, depth, args) ==
    IF text = <<>>
    THEN IF TrimText(current) # <<>> THEN Append(args, TrimText(current)) ELSE args
    ELSE LET char == Head(text)
         IN  IF char = "("
             THEN SplitArgsFrom(Tail(text), Append(current, char), depth + 1, args)
             ELSE IF char = ")"
             THEN SplitArgsFrom(Tail(text), Append(current, char), depth - 1, args)
             ELSE IF char = "," /\ depth = 0
             THEN SplitArgsFrom(Tail(text), <<>>, depth, Append(args, TrimText(current)))
             ELSE SplitArgsFrom(Tail(text), Append(current, char), depth, args)

splitArgs(argsString) == SplitArgsFrom(argsString, <<>>, 0, <<>>)

\* Array.prototype.join('').
RECURSIVE JoinParts(_)
JoinParts(parts) == IF parts = <<>> THEN <<>> ELSE Head(parts) \o JoinParts(Tail(parts))

\* The last position of the run of digits that starts at `from` (from - 1
\* when there is no digit there).
DigitsEnd(text, from) ==
    IF from > Len(text) \/ ~IsDigit(text[from]) THEN from - 1
    ELSE IF \A i \in from..Len(text) : IsDigit(text[i]) THEN Len(text)
    ELSE (CHOOSE i \in from..Len(text) :
              ~IsDigit(text[i]) /\ \A j \in from..(i - 1) : IsDigit(text[j])) - 1

\* \d+(?:\.\d+)? at position `from`: whether it matches, where it ends and the
\* number it denotes, in hundredths.
NumberAt(text, from) ==
    LET intEnd == DigitsEnd(text, from)
        hasFrac == /\ intEnd >= from
                   /\ intEnd + 2 <= Len(text)
                   /\ text[intEnd + 1] = "."
                   /\ IsDigit(text[intEnd + 2])
        fracEnd == IF hasFrac THEN DigitsEnd(text, intEnd + 2) ELSE intEnd
        whole == ParseDigits(SubSeq(text, from, intEnd), 0, FALSE).val
        tenths == IF hasFrac THEN DigitVal(text[intEnd + 2]) ELSE 0
        hundredths == IF hasFrac /\ fracEnd >= intEnd + 3 THEN DigitVal(text[intEnd + 3]) ELSE 0
    IN  [ok |-> intEnd >= from, end |-> fracEnd,
         val |-> whole * 100 + tenths * 10 + hundredths]

\* parseFloat: white space and a sign are skipped and the longest numeric
\* prefix is the value; NaN without one.
parseFloat(text) ==
    LET start == SkipSpaces(text, 1)
        signed == start <= Len(text) /\ text[start] \in {"-", "+"}
        n == NumberAt(text, IF signed THEN start + 1 ELSE start)
    IN  [nan |-> ~n.ok,
         val |-> IF signed /\ text[start] = "-" THEN 0 - n.val ELSE n.val]

\* String(number) for a number given in hundredths.
FormatNumber(h) ==
    LET a == Abs(h)
        sign == IF h < 0 THEN <<"-">> ELSE <<>>
        whole == ToStr(a \div 100)
        frac == a % 100
    IN  sign \o whole \o
        (IF frac = 0 THEN <<>>
         ELSE IF frac % 10 = 0 THEN <<".">> \o ToStr(frac \div 10)
         ELSE <<".">> \o ToStr(frac \div 10) \o ToStr(frac % 10))

\* Math.round(n * 10^d) / 10^d for n in hundredths.
RoundTo(h, d) ==
    IF d >= 2 THEN h
    ELSE LET unit == IF d = 1 THEN 10 ELSE 100
             down == (h \div unit) * unit
         IN  IF 2 * (h - down) >= unit THEN down + unit ELSE down

NoMatch == [ok |-> FALSE, len |-> 0, out |-> <<>>]

Matched(len, out) == [ok |-> TRUE, len |-> len, out |-> out]

\* /concat\(([^)]*)\)/gi at the head of the text, lines 73-76.
MatchConcat(text) ==
    LET close == IndexFrom(text, ")", 8)
    IN  IF StartsWithName(text, <<"c", "o", "n", "c", "a", "t", "(">>) /\ close # 0
        THEN Matched(close, JoinParts(splitArgs(SubSeq(text, 8, close - 1))))
        ELSE NoMatch

\* /upper\(([^)]*)\)/gi, lines 79-81.
MatchUpper(text) ==
    LET close == IndexFrom(text, ")", 7)
    IN  IF StartsWithName(text, <<"u", "p", "p", "e", "r", "(">>) /\ close # 0
        THEN Matched(close, toUpperCase(SubSeq(text, 7, close - 1)))
        ELSE NoMatch

\* The test of lines 124-125.
isTruthy(condition) ==
    /\ condition # <<>>
    /\ condition # <<"f", "a", "l", "s", "e">>
    /\ condition # <<"0">>
    /\ condition # <<"n", "u", "l", "l">>
    /\ condition # <<"u", "n", "d", "e", "f", "i", "n", "e", "d">>
    /\ TrimText(condition) # <<>>

\* /if\(([^,]+),\s*([^,]+),\s*([^)]*)\)/gi, lines 122-126: the condition
\* and the then-value are not empty and hold no comma.
MatchIf(text) ==
    LET comma1 == IndexFrom(text, ",", 4)
        comma2 == IF comma1 = 0 THEN 0 ELSE IndexFrom(text, ",", comma1 + 1)
        close == IF comma2 = 0 THEN 0 ELSE IndexFrom(text, ")", comma2 + 1)
        thenStart == SkipSpaces(text, comma1 + 1)
        thenVal == IF thenStart < comma2 THEN SubSeq(text, thenStart, comma2 - 1)
                   ELSE SubSeq(text, comma2 - 1, comma2 - 1)
        elseVal == SubSeq(text, SkipSpaces(text, comma2 + 1), close - 1)
    IN  IF /\ StartsWithName(text, <<"i", "f", "(">>)
           /\ comma1 > 4
           /\ comma2 > comma1 + 1
           /\ close # 0
        THEN Matched(close, IF isTruthy(SubSeq(text, 4, comma1 - 1)) THEN thenVal ELSE elseVal)
        ELSE NoMatch

\* /round\(([^,]+)(?:,\s*(\d+))?\)/gi, lines 134-140: the number is the
\* longest text without a comma after which the rest can match.
MatchRound(text) ==
    LET comma == IndexFrom(text, ",", 7)
        runEnd == IF comma = 0 THEN Len(text) ELSE comma - 1
        digitsStart == SkipSpaces(text, comma + 1)
        digitsEnd == DigitsEnd(text, digitsStart)
        withDecimals == /\ comma # 0
                        /\ runEnd >= 7
                        /\ digitsEnd >= digitsStart
                        /\ digitsEnd + 1 <= Len(text)
                        /\ text[digitsEnd + 1] = ")"
        closes == {j \in 7..(runEnd - 1) : text[j + 1] = ")"}
        last == CHOOSE j \in closes : \A k \in closes : k <= j
        num == IF withDecimals THEN SubSeq(text, 7, runEnd) ELSE SubSeq(text, 7, last)
        decimals == IF withDecimals
                    THEN ParseDigits(SubSeq(text, digitsStart, digitsEnd), 0, FALSE).val
                    ELSE 0
        n == parseFloat(num)
        len == IF withDecimals THEN digitsEnd + 1 ELSE last + 1
    IN  IF StartsWithName(text, <<"r", "o", "u", "n", "d", "(">>) /\ (withDecimals \/ closes # {})
        THEN Matched(len, IF n.nan THEN num ELSE FormatNumber(RoundTo(n.val, decimals)))
        ELSE NoMatch

DivisionSentinel == <<"E", "R", "R", "O", "R", ":", "D", "I", "V", "/", "0">>

\* The four arithmetic patterns of lines 161-176: a number, the operator
\* with optional (for the subtraction required) white space, a number; prev
\* is the character before the match, for the lookbehind of + and -.
MatchArithmetic(op, text, prev) ==
    LET a == NumberAt(text, 1)
        opAt == SkipSpaces(text, a.end + 1)
        bAt == SkipSpaces(text, opAt + 1)
        b == NumberAt(text, bAt)
        spaced == opAt > a.end + 1 /\ bAt > opAt + 1
        behind == IF op = "+" THEN ~(IsWordChar(prev) \/ prev \in {".", "-"})
                  ELSE IF op = "-" THEN ~(IsWordChar(prev) \/ prev = ".")
                  ELSE TRUE
    IN  IF /\ a.ok
           /\ opAt <= Len(text)
           /\ text[opAt] = op
           /\ b.ok
           /\ op = "-" => spaced
           /\ behind
        THEN Matched(b.end,
                 IF op = "*" THEN FormatNumber((a.val * b.val) \div 100)
                 ELSE IF op = "/"
                 THEN IF b.val = 0 THEN DivisionSentinel
                      ELSE FormatNumber((a.val * 100) \div b.val)
                 ELSE IF op = "+" THEN FormatNumber(a.val + b.val)
                 ELSE FormatNumber(a.val - b.val))
        ELSE NoMatch

MatchAt(pass, text, prev) ==
    IF pass = "concat" THEN MatchConcat(text)
    ELSE IF pass = "upper" THEN MatchUpper(text)
    ELSE IF pass = "if" THEN MatchIf(text)
    ELSE IF pass = "round" THEN MatchRound(text)
    ELSE MatchArithmetic(pass, text, prev)

\* String.prototype.replace with a global pattern: the matches are taken from
\* left to right and what replaces a match is not searched again.
SetMin(S) == CHOOSE i \in S : \A j \in S : i <= j

RECURSIVE ReplaceAll(_, _, _)

\* The match at position `first` is replaced and the scan goes on behind it.
ReplaceMatch(pass, text, first, m) ==
    SubSeq(text, 1, first - 1) \o m.out
    \o ReplaceAll(pass, Rest(text, first + m.len), text[first + m.len - 1])

\* The leftmost of the positions where the pattern matches is replaced.
ReplaceFirstOf(pass, text, prev, hits) ==
    IF hits = {} THEN text
    ELSE ReplaceMatch(pass, text, SetMin(hits),
                      MatchAt(pass, Rest(text, SetMin(hits)),
                              IF SetMin(hits) = 1 THEN prev ELSE text[SetMin(hits) - 1]))

ReplaceAll(pass, text, prev) ==
    ReplaceFirstOf(pass, text, prev,
                   {i \in 1..Len(text) :
                       MatchAt(pass, Rest(text, i), IF i = 1 THEN prev ELSE text[i - 1]).ok})

\* The passes of one turn of the loop, in the order of lines 73-176, for
\* the functions that occur in the formulas evaluated here.
FormulaPasses == <<"concat", "upper", "if", "round", "*", "/", "+", "-">>

RECURSIVE ApplyPasses(_, _)
ApplyPasses(text, k) ==
    IF k > Len(FormulaPasses) THEN text
    ELSE ApplyPasses(ReplaceAll(FormulaPasses[k], text, ""), k + 1)

\* const maxIterations = 50
maxIterations == 50

\* A loop that goes on until a turn changes nothing, with no count of its turns.
RECURSIVE FormulaRun_NoCap(_, _, _)
FormulaRun_NoCap(result, iterations, turns) ==
    LET next == ApplyPasses(result, 1)
    IN  IF next = result
        THEN [result |-> result, turns |-> turns + 1, unchanged |-> 1]
        ELSE FormulaRun_NoCap(next, iterations + 1, turns + 1)

\* The while loop of processFormulaFunctions, lines 69-180: the text it ends
\* with, the turns it made and how many of them changed nothing.
RECURSIVE FormulaRun(_, _, _)
FormulaRun(result, iterations, turns) ==
    IF iterations >= maxIterations
    THEN [result |-> result, turns |-> turns, unchanged |-> 0]
    ELSE LET next == ApplyPasses(result, 1)
         IN  IF next = result
             THEN [result |-> result, turns |-> turns + 1, unchanged |-> 1]
             ELSE FormulaRun(next, iterations + 1, turns + 1)

\* processFormulaFunctions, lines 63-183.
FormulaLoop(result, iterations) == FormulaRun(result, iterations, 0).result

processFormulaFunctions(formula) == FormulaLoop(formula, 0)

(***************************************************************************)
(* JSON values and the path extractors                                     *)
(***************************************************************************)
\* An object with its own properties and an array with its items; numbers,
\* strings and undefined are the values above.  null is not among the values.
Obj(fields) == [type |-> "object", fields |-> fields]

Arr(items) == [type |-> "array", items |-> items]

EmptyString == Str(<<>>)

\* path.split('.')
RECURSIVE SplitOn(_, _)
SplitOn(text, c) ==
    LET i == IndexFrom(text, c, 1)
    IN  IF i = 0 THEN <<text>>
        ELSE <<SubSeq(text, 1, i - 1)>> \o SplitOn(Rest(text, i + 1), c)

\* part.match(/^(\w+)\[(\d+)\]$/): one name and one index, nothing after it.
ArrayMatch(part) ==
    LET open == IndexFrom(part, "[", 1)
        n == Len(part)
    IN  IF /\ open > 1
           /\ \A i \in 1..(open - 1) : IsWordChar(part[i])
           /\ n >= open + 2
           /\ part[n] = "]"
           /\ \A i \in (open + 1)..(n - 1) : IsDigit(part[i])
        THEN [ok |-> TRUE, key |-> SubSeq(part, 1, open - 1),
              index |-> ParseDigits(SubSeq(part, open + 1, n - 1), 0, FALSE).val]
        ELSE [ok |-> FALSE, key |-> <<>>, index |-> 0]

\* The key is the index of one of `count` items.
IsIndexKey(key, count) ==
    /\ key # <<>>
    /\ \A i \in 1..Len(key) : IsDigit(key[i])
    /\ Len(key) = 1 \/ key[1] # "0"
    /\ ParseDigits(key, 0, FALSE).val < count

\* Object.prototype.hasOwnProperty.call(value, key): the keys of an object, the
\* indexes and the length of an array or a string, nothing of a number.
hasOwnProperty(value, key) ==
    CASE value.type = "object" -> key \in DOMAIN value.fields
      [] value.type = "array" -> key = <<"l", "e", "n", "g", "t", "h">> \/ IsIndexKey(key, Len(value.items))
      [] value.type = "string" -> key = <<"l", "e", "n", "g", "t", "h">> \/ IsIndexKey(key, Len(value.text))
      [] OTHER -> FALSE

\* array[index]
ItemAt(array, index) ==
    IF index < Len(array.items) THEN array.items[index + 1] ELSE Undefined

\* Members of Object.prototype that a path can name: every object, array and
\* string inherits them.
PrototypeKeys == {<<"t", "o", "S", "t", "r", "i", "n", "g">>, <<"v", "a", "l", "u", "e", "O", "f">>, <<"c", "o", "n", "s", "t", "r", "u", "c", "t", "o", "r">>, <<"_", "_", "p", "r", "o", "t", "o", "_", "_">>}

\* What reading an inherited member gives: a function (or the prototype), never
\* an array.
Inherited(key) == [type |-> "function", text |-> key]

\* value[key]: the own property, else the member found on the prototype chain.
PropertyOf(value, key) ==
    IF ~hasOwnProperty(value, key)
    THEN IF value.type \in {"object", "array", "string"} /\ key \in PrototypeKeys THEN Inherited(key) ELSE Undefined
    ELSE CASE value.type = "object" -> value.fields[key]
           [] value.type = "array" ->
                IF key = <<"l", "e", "n", "g", "t", "h">> THEN Num(Len(value.items))
                ELSE ItemAt(value, ParseDigits(key, 0, FALSE).val)
           [] OTHER ->
                IF key = <<"l", "e", "n", "g", "t", "h">> THEN Num(Len(value.text))
                ELSE Str(<<value.text[ParseDigits(key, 0, FALSE).val + 1]>>)

\* BLOCKED_KEYS (webhook dispatcher) as texts.
BLOCKED_KEY_TEXTS == {<<"_", "_", "p", "r", "o", "t", "o", "_", "_">>, <<"c", "o", "n", "s", "t", "r", "u", "c", "t", "o", "r">>, <<"p", "r", "o", "t", "o", "t", "y", "p", "e">>}

\* The loop of getValueByPath over the parts that are left.
RECURSIVE getValueByPathFrom(_, _)
getValueByPathFrom(current, parts) ==
    IF parts = <<>> THEN current
    ELSE IF current.type = "undefined" THEN Undefined
    ELSE LET part == Head(parts)
             arrayMatch == ArrayMatch(part)
         IN  IF arrayMatch.ok
             THEN IF arrayMatch.key \in BLOCKED_KEY_TEXTS THEN Undefined
                  ELSE LET next == PropertyOf(current, arrayMatch.key)
                       IN  IF next.type = "array"
                           THEN getValueByPathFrom(ItemAt(next, arrayMatch.index), Tail(parts))
                           ELSE Undefined
             ELSE IF part \in BLOCKED_KEY_TEXTS THEN Undefined
             ELSE IF ~hasOwnProperty(current, part) THEN Undefined
             ELSE getValueByPathFrom(PropertyOf(current, part), Tail(parts))

\* getValueByPath(obj, path) of the webhook dispatcher for a path given as text.
getValueByPathText(obj, path) == getValueByPathFrom(obj, SplitOn(path, "."))

BLOCKED_PATH_KEYS == {<<"_", "_", "p", "r", "o", "t", "o", "_", "_">>, <<"c", "o", "n", "s", "t", "r", "u", "c", "t", "o", "r">>, <<"p", "r", "o", "t", "o", "t", "y", "p", "e">>}

\* The loop of getNestedValue over the keys that are left.
RECURSIVE getNestedValueFrom(_, _)
getNestedValueFrom(value, keys) ==
    IF keys = <<>> THEN value
    ELSE IF value.type = "undefined" THEN EmptyString
    ELSE LET key == Head(keys)
             arrayMatch == ArrayMatch(key)
         IN  IF arrayMatch.ok
             THEN IF arrayMatch.key \in BLOCKED_PATH_KEYS THEN EmptyString
                  ELSE LET next == PropertyOf(value, arrayMatch.key)
                       IN  IF next.type = "array"
                           THEN getNestedValueFrom(ItemAt(next, arrayMatch.index), Tail(keys))
                           ELSE EmptyString
             ELSE IF key \in BLOCKED_PATH_KEYS THEN EmptyString
             ELSE IF ~hasOwnProperty(value, key) THEN EmptyString
             ELSE getNestedValueFrom(PropertyOf(value, key), Tail(keys))

\* getNestedValue(obj, path), lines 1074-1098.
getNestedValue(obj, path) ==
    IF path = <<>> THEN obj
    ELSE LET value == getNestedValueFrom(obj, SplitOn(path, "."))
         IN  IF value.type # "undefined" THEN value ELSE EmptyString

\* value !== undefined && value !== null ? String(value) : ''
PlaceholderText(value) == IF value.type = "undefined" THEN <<>> ELSE StringOf(value).text

\* /\{\{([^}]+)\}\}/g and /\[\[([^\]]+)\]\]/g at the head of the text, lines
\* 42-52: a {{path}} is read with getNestedValue, an [[input]] by its name.
MatchPlaceholder(text, open, shut, values) ==
    LET end == IndexFrom(text, shut, 3)
        name == TrimText(SubSeq(text, 3, end - 1))
    IN  IF /\ Len(text) >= 5
           /\ text[1] = open /\ text[2] = open
           /\ end > 3
           /\ end + 1 <= Len(text)
           /\ text[end + 1] = shut
        THEN Matched(end + 1,
                     PlaceholderText(IF open = "{" THEN getNestedValue(values, name)
                                     ELSE PropertyOf(values, name)))
        ELSE NoMatch

RECURSIVE ReplacePlaceholders(_, _, _, _)
ReplacePlaceholders(text, open, shut, values) ==
    IF text = <<>> THEN <<>>
    ELSE LET m == MatchPlaceholder(text, open, shut, values)
         IN  IF m.ok
             THEN m.out \o ReplacePlaceholders(Rest(text, m.len + 1), open, shut, values)
             ELSE <<Head(text)>> \o ReplacePlaceholders(Tail(text), open, shut, values)

\* evaluateFormula, lines 38-58: props is object.properties || object.
evaluateFormula(formula, object, inputs) ==
    LET props == IF hasOwnProperty(object, <<"p", "r", "o", "p", "e", "r", "t", "i", "e", "s">>)
                 THEN object.fields[<<"p", "r", "o", "p", "e", "r", "t", "i", "e", "s">>] ELSE object
    IN  processFormulaFunctions(
            ReplacePlaceholders(ReplacePlaceholders(formula, "{", "}", props), "[", "]", inputs))


UpperConcatFormula == <<"u", "p", "p", "e", "r", "(", "c", "o", "n", "c", "a", "t", "(", "{", "{", "f", "i", "r", "s", "t", "n", "a", "m", "e", "}", "}", ",", "\"", " ", "\"", ",", "{", "{", "l", "a", "s", "t", "n", "a", "m", "e", "}", "}", ")", ")">>

RoundFormula == <<"r", "o", "u", "n", "d", "(", "{", "{", "a", "m", "t", "}", "}", "*", "1", ".", "1", "8", ",", "2", ")">>

IfFormula == <<"i", "f", "(", "{", "{", "x", "}", "}", ",", "a", ",", "b", ")">>

DivideFormula == <<"{", "{", "a", "m", "t", "}", "}", "/", "{", "{", "d", "}", "}">>

DivideThenAddFormula == <<"{", "{", "a", "m", "t", "}", "}", "/", "{", "{", "d", "}", "}", " ", "+", " ", "2">>

AddThenDivideFormula == <<"2", " ", "+", " ", "{", "{", "a", "m", "t", "}", "}", "/", "{", "{", "d", "}", "}">>

Formulas ==
    {UpperConcatFormula, RoundFormula, IfFormula, DivideFormula, DivideThenAddFormula,
     AddThenDivideFormula}

\* The workflow object: its properties are texts.
FormulaObjects ==
    {Obj((<<"p", "r", "o", "p", "e", "r", "t", "i", "e", "s">> :>
          Obj((<<"f", "i", "r", "s", "t", "n", "a", "m", "e">> :> Str(<<"S", "r", "i">>)) @@ (<<"l", "a", "s", "t", "n", "a", "m", "e">> :> Str(<<"K">>)) @@ (<<"a", "m", "t">> :> Str(amt))
              @@ (<<"x">> :> Str(x)) @@ (<<"d">> :> Str(d))))) :
        amt \in {<<"1", "0", "0", "0", "0">>, <<"6">>},
        d \in {<<"0">>, <<"2">>},
        x \in {<<>>, <<" ">>, <<"y", "e", "s">>, <<"f", "a", "l", "s", "e">>, <<"0">>, <<"n", "u", "l", "l">>, <<"u", "n", "d", "e", "f", "i", "n", "e", "d">>, <<"1">>, <<"n", "o">>}}

\* The text of a property of the workflow object.
PropertyText(object, name) == object.fields[<<"p", "r", "o", "p", "e", "r", "t", "i", "e", "s">>].fields[name].text

FormulaCases == [formula : Formulas, object : FormulaObjects]

EvaluateFormula ==
    /\ pfPc = "formula"
    /\ pfOut' = evaluateFormula(pfIn.formula, pfIn.object, Obj(<<>>))
    /\ pfPc' = "done"
    /\ UNCHANGED <<pfIn, exVars, crVars, baseVars>>

InitFormula ==
    /\ pfPc = "formula"
    /\ pfIn \in FormulaCases
    /\ pfOut = <<>>
    /\ ExIdle /\ CrIdle /\ EndIdle
    /\ GdIdle /\ UsIdle /\ SnIdle /\ ScIdle
    /\ SvIdle
    /\ EwIdle
    /\ RqIdle

SpecFormula == InitFormula /\ [][EvaluateFormula]_vars

\* C26: upper(concat({{firstname}}," ",{{lastname}})) gives "SRI K" for Sri and
\* K, and round({{amt}}*1.18,2) gives "11800.00" for amt = 10000: the inner
\* call and the arithmetic argument are evaluated before what encloses them.
C26_NestedFormulas ==
    pfPc = "done" =>
        /\ pfIn.formula = UpperConcatFormula => pfOut = <<"S", "R", "I", " ", "K">>
        /\ (pfIn.formula = RoundFormula /\ PropertyText(pfIn.object, <<"a", "m", "t">>) = <<"1", "0", "0", "0", "0">>)
              => pfOut = <<"1", "1", "8", "0", "0", ".", "0", "0">>

\* C27: if(x,a,b) gives a exactly when the value of x is not empty and is none
\* of false, 0, null, undefined, and gives b otherwise, the empty x included.
C27_IfSelects ==
    (pfPc = "done" /\ pfIn.formula = IfFormula) =>
        pfOut = (IF PropertyText(pfIn.object, <<"x">>) \notin {<<>>, <<"f", "a", "l", "s", "e">>, <<"0">>, <<"n", "u", "l", "l">>, <<"u", "n", "d", "e", "f", "i", "n", "e", "d">>}
                 THEN <<"a">> ELSE <<"b">>)

\* The text holds the division-by-zero sentinel.
HoldsSentinel(text) ==
    \E i \in 1..Len(text) :
        /\ i + Len(DivisionSentinel) - 1 <= Len(text)
        /\ SubSeq(text, i, i + Len(DivisionSentinel) - 1) = DivisionSentinel

\* C28: a formula that divides a number by zero gives a result that holds the
\* division-by-zero sentinel unchanged, also when the division is part of a
\* larger arithmetic expression.
C28_SentinelKept ==
    (/\ pfPc = "done"
     /\ pfIn.formula \in {DivideFormula, DivideThenAddFormula, AddThenDivideFormula}
     /\ PropertyText(pfIn.object, <<"d">>) = <<"0">>)
    => HoldsSentinel(pfOut)

(***************************************************************************)
(* Path extraction (SpecPath)                                              *)
(***************************************************************************)
\* The data of the extraction test (src/scripts/update-action-names.js).
testData ==
    Obj((<<"u", "s", "e", "r">> :> Obj((<<"i", "d">> :> Num(1))
                       @@ (<<"p", "r", "o", "f", "i", "l", "e">> :> Obj((<<"n", "a", "m", "e">> :> Str(<<"J", "o", "h", "n", " ", "D", "o", "e">>))
                                            @@ (<<"e", "m", "a", "i", "l", "s">> :> Arr(<<Str(<<"j", "o", "h", "n", "@", "e", "x", "a", "m", "p", "l", "e", ".", "c", "o", "m">>),
                                                                  Str(<<"d", "o", "e", "@", "e", "x", "a", "m", "p", "l", "e", ".", "c", "o", "m">>)>>))))))
        @@ (<<"i", "t", "e", "m", "s">> :> Arr(<<Obj((<<"i", "d">> :> Str(<<"a">>)) @@ (<<"v", "a", "l", "u", "e", "s">> :> Arr(<<Num(10), Num(20)>>))),
                             Obj((<<"i", "d">> :> Str(<<"b">>)) @@ (<<"v", "a", "l", "u", "e", "s">> :> Arr(<<Num(30), Num(40)>>)))>>))
        @@ (<<"d", "e", "e", "p", "l", "y">> :> Obj((<<"n", "e", "s", "t", "e", "d">> :> Obj((<<"a", "r", "r", "a", "y", "s">> :> Arr(<<Arr(<<Num(1), Num(2)>>),
                                                              Arr(<<Num(3), Num(4)>>)>>)))))))

\* Other responses: one without items, one whose user is a text.
PathData ==
    {testData,
     Obj((<<"u", "s", "e", "r">> :> Obj((<<"i", "d">> :> Num(2)))) @@ (<<"i", "t", "e", "m", "s">> :> Arr(<<>>))),
     Obj((<<"u", "s", "e", "r">> :> Str(<<"a", "d", "a">>)) @@ (<<"i", "t", "e", "m", "s">> :> Arr(<<Arr(<<Num(7)>>)>>)))}

\* The paths of the test and their expected values (Undefined: none).
testCases ==
    (<<"u", "s", "e", "r", ".", "i", "d">> :> Num(1))
    @@ (<<"u", "s", "e", "r", ".", "p", "r", "o", "f", "i", "l", "e", ".", "n", "a", "m", "e">> :> Str(<<"J", "o", "h", "n", " ", "D", "o", "e">>))
    @@ (<<"u", "s", "e", "r", ".", "p", "r", "o", "f", "i", "l", "e", ".", "e", "m", "a", "i", "l", "s", "[", "0", "]">> :> Str(<<"j", "o", "h", "n", "@", "e", "x", "a", "m", "p", "l", "e", ".", "c", "o", "m">>))
    @@ (<<"i", "t", "e", "m", "s", "[", "1", "]", ".", "i", "d">> :> Str(<<"b">>))
    @@ (<<"i", "t", "e", "m", "s", "[", "0", "]", ".", "v", "a", "l", "u", "e", "s", "[", "1", "]">> :> Num(20))
    @@ (<<"d", "e", "e", "p", "l", "y", ".", "n", "e", "s", "t", "e", "d", ".", "a", "r", "r", "a", "y", "s", "[", "1", "]", "[", "0", "]">> :> Num(3))
    @@ (<<"n", "o", "n", "e", "x", "i", "s", "t", "e", "n", "t", ".", "p", "a", "t", "h">> :> Undefined)
    @@ (<<"_", "_", "p", "r", "o", "t", "o", "_", "_", ".", "p", "o", "l", "l", "u", "t", "e", "d">> :> Undefined)

PathTexts ==
    DOMAIN testCases
    \cup {<<"u", "s", "e", "r", ".", "p", "r", "o", "f", "i", "l", "e", ".", "e", "m", "a", "i", "l", "s", "[", "5", "]">>, <<"i", "t", "e", "m", "s", "[", "2", "]", ".", "i", "d">>, <<"u", "s", "e", "r">>, <<"i", "t", "e", "m", "s">>, <<"i", "t", "e", "m", "s", "[", "0", "]">>,
          <<"d", "e", "e", "p", "l", "y", ".", "n", "e", "s", "t", "e", "d", ".", "a", "r", "r", "a", "y", "s", "[", "1", "]">>, <<"c", "o", "n", "s", "t", "r", "u", "c", "t", "o", "r", ".", "n", "a", "m", "e">>, <<"u", "s", "e", "r", ".", "p", "r", "o", "t", "o", "t", "y", "p", "e">>, <<"u", "s", "e", "r", ".", "i", "d", ".", "x">>,
          <<"i", "t", "e", "m", "s", ".", "l", "e", "n", "g", "t", "h">>, <<"i", "t", "e", "m", "s", ".", "0", ".", "i", "d">>, <<"u", "s", "e", "r", ".", "l", "e", "n", "g", "t", "h">>, <<"u", "s", "e", "r", ".", "1">>, <<"i", "t", "e", "m", "s", "[", "0", "]", "[", "0", "]">>, <<>>}

PathCases == [data : PathData, path : PathTexts, extractor : {"getValueByPath", "getNestedValue"}]

ExtractPath ==
    /\ pfPc = "path"
    /\ pfOut' = IF pfIn.extractor = "getValueByPath"
                THEN getValueByPathText(pfIn.data, pfIn.path)
                ELSE getNestedValue(pfIn.data, pfIn.path)
    /\ pfPc' = "done"
    /\ UNCHANGED <<pfIn, exVars, crVars, baseVars>>

InitPath ==
    /\ pfPc = "path"
    /\ pfIn \in PathCases
    /\ pfOut = Undefined
    /\ ExIdle /\ CrIdle /\ EndIdle
    /\ GdIdle /\ UsIdle /\ SnIdle /\ ScIdle
    /\ SvIdle
    /\ EwIdle
    /\ RqIdle

SpecPath == InitPath /\ [][ExtractPath]_vars

\* What an extractor gives when there is no value: undefined, or '' from
\* getNestedValue.
NoValue(extractor) == IF extractor = "getValueByPath" THEN Undefined ELSE EmptyString

\* C29: on the test data the path extractor returns exactly the expected value
\* for user.id, user.profile.name, user.profile.emails[0], items[1].id,
\* items[0].values[1] and deeply.nested.arrays[1][0], and nothing for
\* nonexistent.path and __proto__.polluted.
C29_PathsExtracted ==
    (pfPc = "done" /\ pfIn.data = testData /\ pfIn.path \in DOMAIN testCases) =>
        pfOut = (IF testCases[pfIn.path] = Undefined THEN NoValue(pfIn.extractor)
                 ELSE testCases[pfIn.path])

(***************************************************************************)
(* Templates of the webhook action as texts (SpecTemplate)                 *)
(***************************************************************************)
MAX_TEMPLATE_DEPTH == 20

\* Array.prototype.join(sep).
RECURSIVE JoinWith(_, _)
JoinWith(parts, sep) ==
    IF parts = <<>> THEN <<>>
    ELSE IF Len(parts) = 1 THEN parts[1]
    ELSE parts[1] \o sep \o JoinWith(Tail(parts), sep)

\* The keys of an object in one order (the objects here do not keep the order
\* in which their keys were set).
KeysOf(fields) ==
    CHOOSE keys \in [1..Cardinality(DOMAIN fields) -> DOMAIN fields] :
        \A k \in DOMAIN fields : \E i \in DOMAIN keys : keys[i] = k

\* JSON.stringify(value) for texts without characters to escape.
RECURSIVE JSONStringify(_)
JSONStringify(value) ==
    CASE value.type = "string" -> <<"\"">> \o value.text \o <<"\"">>
      [] value.type = "array" ->
            <<"[">> \o JoinWith([i \in 1..Len(value.items) |-> JSONStringify(value.items[i])],
                                <<",">>) \o <<"]">>
      [] value.type = "object" ->
            LET keys == KeysOf(value.fields)
            IN  <<"{">> \o JoinWith([i \in 1..Len(keys) |->
                                        <<"\"">> \o keys[i] \o <<"\"", ":">>
                                        \o JSONStringify(value.fields[keys[i]])],
                                    <<",">>) \o <<"}">>
      [] OTHER -> value.text

\* The replacer of processTemplate, lines 690-694.
TemplateText(value) ==
    IF value.type = "undefined" THEN <<>>
    ELSE IF value.type \in {"object", "array"} THEN JSONStringify(value)
    ELSE StringOf(value).text

\* /\{\{([^}]+)\}\}/g at the head of the text.
MatchTemplate(text, context) ==
    LET end == IndexFrom(text, "}", 3)
    IN  IF /\ Len(text) >= 5
           /\ text[1] = "{" /\ text[2] = "{"
           /\ end > 3
           /\ end + 1 <= Len(text)
           /\ text[end + 1] = "}"
        THEN Matched(end + 1,
                     TemplateText(getValueByPathText(context, TrimText(SubSeq(text, 3, end - 1)))))
        ELSE NoMatch

\* processTemplate(template, context) on a text, lines 684-695.
RECURSIVE processTemplateText(_, _)
processTemplateText(template, context) ==
    IF template = <<>> THEN template
    ELSE LET m == MatchTemplate(template, context)
         IN  IF m.ok
             THEN m.out \o processTemplateText(Rest(template, m.len + 1), context)
             ELSE <<Head(template)>> \o processTemplateText(Tail(template), context)

\* processObjectTemplates(obj, context, depth), lines 706-730.
RECURSIVE processObjectTemplates(_, _, _)
processObjectTemplates(obj, context, depth) ==
    IF obj.type \notin {"object", "array"} THEN obj
    ELSE IF depth >= MAX_TEMPLATE_DEPTH THEN obj
    ELSE IF obj.type = "array"
    THEN Arr([i \in 1..Len(obj.items) |->
                 processObjectTemplates(obj.items[i], context, depth + 1)])
    ELSE Obj([key \in DOMAIN obj.fields |->
                 LET value == obj.fields[key]
                 IN  IF value.type = "string"
                     THEN Str(processTemplateText(value.text, context))
                     ELSE IF value.type \in {"object", "array"}
                     THEN processObjectTemplates(value, context, depth + 1)
                     ELSE value])

\* The request executeSingleRequest builds (lines 744-800) for a config whose
\* headers and body are objects: a GET sends the body as query parameters.
BuildRequest(config, context) ==
    LET processedBody == processObjectTemplates(config.body, context, 0)
        asQuery == config.method = <<"G", "E", "T">> /\ processedBody.type = "object"
    IN  [url |-> processTemplateText(config.url, context),
         method |-> config.method,
         headers |-> Obj(processObjectTemplates(config.headers, context, 0).fields
                         @@ (<<"C", "o", "n", "t", "e", "n", "t", "-", "T", "y", "p", "e">> :> Str(<<"a", "p", "p", "l", "i", "c", "a", "t", "i", "o", "n", "/", "j", "s", "o", "n">>))
                         @@ (<<"U", "s", "e", "r", "-", "A", "g", "e", "n", "t">> :> Str(<<"H", "u", "b", "H", "a", "c", "k", "s", "/", "1", ".", "0">>))),
         params |-> IF asQuery THEN processedBody ELSE Undefined,
         data |-> IF asQuery THEN Undefined ELSE processedBody]

\* The context the webhook handler builds, actions.js 251-257.
WebhookContext(object, webhookInputs) ==
    Obj((<<"o", "b", "j", "e", "c", "t">> :> object)
        @@ (<<"w", "o", "r", "k", "f", "l", "o", "w">> :> Obj((<<"w", "o", "r", "k", "f", "l", "o", "w", "I", "d">> :> Num(7))))
        @@ (<<"i", "n", "p", "u", "t", "s">> :> webhookInputs)
        @@ (<<"p", "o", "r", "t", "a", "l", "I", "d">> :> Num(1)))

\* What the handler stores as inputData of the Execution Record, lines 333-337.
WebhookInputData(webhookInputs) ==
    Obj((<<"u", "r", "l">> :> webhookInputs.fields[<<"w", "e", "b", "h", "o", "o", "k", "U", "r", "l">>])
        @@ (<<"m", "e", "t", "h", "o", "d">> :> webhookInputs.fields[<<"w", "e", "b", "h", "o", "o", "k", "M", "e", "t", "h", "o", "d">>]))

\* The webhook handler for input fields whose headers and body are objects:
\* the request it sends and the record it writes.
WebhookRequestOf(object, webhookInputs) ==
    [request |-> BuildRequest([url |-> webhookInputs.fields[<<"w", "e", "b", "h", "o", "o", "k", "U", "r", "l">>].text,
                               method |-> webhookInputs.fields[<<"w", "e", "b", "h", "o", "o", "k", "M", "e", "t", "h", "o", "d">>].text,
                               headers |-> webhookInputs.fields[<<"w", "e", "b", "h", "o", "o", "k", "H", "e", "a", "d", "e", "r", "s">>],
                               body |-> webhookInputs.fields[<<"w", "e", "b", "h", "o", "o", "k", "B", "o", "d", "y">>]],
                              WebhookContext(object, webhookInputs)),
     inputData |-> WebhookInputData(webhookInputs)]

BaseUrl == <<"h", "t", "t", "p", "s", ":", "/", "/", "h", "t", "t", "p", "b", "i", "n", ".", "e", "x", "a", "m", "p", "l", "e", "/">>

\* A placeholder for the path.
Placeholder(path) == <<"{", "{">> \o path \o <<"}", "}">>

\* The input fields with the placeholder in the url, in a header or in the body.
TemplateInputs(path, position, method) ==
    Obj((<<"w", "e", "b", "h", "o", "o", "k", "U", "r", "l">> :> Str(IF position = "url" THEN BaseUrl \o Placeholder(path)
                             ELSE BaseUrl))
        @@ (<<"w", "e", "b", "h", "o", "o", "k", "M", "e", "t", "h", "o", "d">> :> Str(method))
        @@ (<<"w", "e", "b", "h", "o", "o", "k", "H", "e", "a", "d", "e", "r", "s">> :>
               Obj(IF position = "header" THEN (<<"X", "-", "N", "a", "m", "e">> :> Str(Placeholder(path))) ELSE <<>>))
        @@ (<<"w", "e", "b", "h", "o", "o", "k", "B", "o", "d", "y">> :>
               Obj((<<"n">> :> Str(IF position = "body" THEN Placeholder(path) ELSE <<"-">>)))))

\* The workflow object.
TemplateObjects ==
    {Obj((<<"o", "b", "j", "e", "c", "t", "I", "d">> :> Num(5))
         @@ (<<"p", "r", "o", "p", "e", "r", "t", "i", "e", "s">> :> Obj((<<"f", "i", "r", "s", "t", "n", "a", "m", "e">> :> Str(name))
                                 @@ (<<"a", "d", "d", "r", "e", "s", "s">> :> Obj((<<"c", "i", "t", "y">> :> Str(<<"R", "o", "m", "e">>))))
                                 @@ (<<"t", "a", "g", "s">> :> Arr(<<Str(<<"v", "i", "p">>)>>))))) :
        name \in {<<"A", "d", "a">>, <<"B", "o">>}}

\* Paths into the properties of the workflow object.
PropertyPaths == {<<"f", "i", "r", "s", "t", "n", "a", "m", "e">>, <<"a", "d", "d", "r", "e", "s", "s", ".", "c", "i", "t", "y">>, <<"t", "a", "g", "s", "[", "0", "]">>, <<"t", "a", "g", "s">>}

TemplatePaths ==
    PropertyPaths
    \cup {<<"o", "b", "j", "e", "c", "t", ".", "p", "r", "o", "p", "e", "r", "t", "i", "e", "s", ".", "f", "i", "r", "s", "t", "n", "a", "m", "e">>, <<"o", "b", "j", "e", "c", "t", ".", "p", "r", "o", "p", "e", "r", "t", "i", "e", "s", ".", "a", "d", "d", "r", "e", "s", "s", ".", "c", "i", "t", "y">>,
          <<"o", "b", "j", "e", "c", "t", ".", "p", "r", "o", "p", "e", "r", "t", "i", "e", "s", ".", "t", "a", "g", "s", "[", "0", "]">>, <<"o", "b", "j", "e", "c", "t", ".", "o", "b", "j", "e", "c", "t", "I", "d">>, <<"p", "o", "r", "t", "a", "l", "I", "d">>, <<"i", "n", "p", "u", "t", "s", ".", "w", "e", "b", "h", "o", "o", "k", "M", "e", "t", "h", "o", "d">>,
          <<"m", "i", "s", "s", "i", "n", "g">>}

TemplateCases ==
    [object : TemplateObjects, path : TemplatePaths, position : {"url", "header", "body"},
     method : {<<"P", "O", "S", "T">>, <<"G", "E", "T">>}]

SendWebhook ==
    /\ pfPc = "template"
    /\ pfOut' = WebhookRequestOf(pfIn.object,
                                 TemplateInputs(pfIn.path, pfIn.position, pfIn.method))
    /\ pfPc' = "done"
    /\ UNCHANGED <<pfIn, exVars, crVars, baseVars>>

InitTemplate ==
    /\ pfPc = "template"
    /\ pfIn \in TemplateCases
    /\ pfOut = <<>>
    /\ ExIdle /\ CrIdle /\ EndIdle
    /\ GdIdle /\ UsIdle /\ SnIdle /\ ScIdle
    /\ SvIdle
    /\ EwIdle
    /\ RqIdle

SpecTemplate == InitTemplate /\ [][SendWebhook]_vars

\* The text sent where the placeholder stood.
SentText(request, position) ==
    IF position = "url" THEN Rest(request.url, Len(BaseUrl) + 1)
    ELSE IF position = "header" THEN request.headers.fields[<<"X", "-", "N", "a", "m", "e">>].text
    ELSE IF request.data.type = "object" THEN request.data.fields[<<"n">>].text
    ELSE request.params.fields[<<"n">>].text

\* The text holds the part.
Holds(text, part) ==
    \E i \in 1..(Len(text) + 1) :
        /\ i + Len(part) - 1 <= Len(text)
        /\ SubSeq(text, i, i + Len(part) - 1) = part

\* C30: a placeholder {{path}} in the url, a header, the body or the query of a
\* webhook is resolved as a path into the properties of the workflow object:
\* what is sent in its place is the value of that property, and the record of
\* the request holds it.
C30_PlaceholderFromProperties ==
    (pfPc = "done" /\ pfIn.path \in PropertyPaths) =>
        LET value == TemplateText(getValueByPathText(pfIn.object.fields[<<"p", "r", "o", "p", "e", "r", "t", "i", "e", "s">>], pfIn.path))
        IN  /\ SentText(pfOut.request, pfIn.position) = value
            /\ \E key \in DOMAIN pfOut.inputData.fields :
                   Holds(pfOut.inputData.fields[key].text, value)

(***************************************************************************)
(* Retryable failures (SpecWebhook)                                        *)
(***************************************************************************)
\* Outcomes of one request beyond those the calls below meet.
WideOutcomes ==
    {Http(s) : s \in {200, 204, 301, 400, 401, 403, 404, 408, 409, 422, 429, 500, 501, 502,
                      503, 504}}
    \cup {NetError(c) : c \in {"ECONNRESET", "ETIMEDOUT", "ECONNABORTED", "ENOTFOUND",
                               "EAI_AGAIN", "ECONNREFUSED", "EPIPE", "ERR_BAD_REQUEST"}}

\* The failures the dispatcher is to retry: a transport error code, a status
\* code or a timeout.
ListedFailure(result) ==
    \/ result.error \in {"ECONNRESET", "ETIMEDOUT", "ECONNABORTED", "ENOTFOUND", "EAI_AGAIN"}
    \/ result.httpStatusCode \in {408, 429, 500, 502, 503, 504}
    \/ result.status = "timeout"

\* C31: isRetryable is true exactly for a listed transport error code, a listed
\* status code or a timeout; in the loop a retry is only ever scheduled after
\* such a failure, and any other failure ends the loop at once, whatever
\* retries remain.
C31_RetryableExactlyListed ==
    /\ \A o \in WideOutcomes \cup UpstreamOutcomes :
          LET result == SingleResult(IF o.kind = "redirect" THEN Http(o.status) ELSE o)
          IN  isRetryable(result, result.error, MergeRetry(ewRetry)) <=> ListedFailure(result)
    /\ ewPc = "sleep" => (~ewLast.success /\ ListedFailure(ewLast))
    /\ (LoopReturned /\ ~ewResult.result.success
            /\ Len(ewAttempts) <= MergeRetry(ewRetry).maxRetries)
          => ~ListedFailure(ewResult.result)

\* A call that retried after ENOTFOUND and stopped at a 400 with a retry left.
C31_Witness ==
    /\ LoopReturned
    /\ MergeRetry(ewRetry).maxRetries >= 2
    /\ Len(ewAttempts) = 2
    /\ ewAttempts[1].errorMessage = "ENOTFOUND"
    /\ ewAttempts[2].httpStatusCode = 400

(***************************************************************************)
(* requireAuth and lastActivityAt (SpecActivity)                           *)
(***************************************************************************)
\* 5 * 60 * 1000 ms, in minutes.
ThrottleMinutes == 5

MaxAuthRequests == 3
MaxAuthClock == 12

AuthCalls == 1..MaxAuthRequests

\* Portal.findOne({ portalId, isActive: true }) of one request.
RaLoad(r) ==
    /\ raPc[r] = "start"
    /\ raRead' = [raRead EXCEPT ![r] = raStored]
    /\ raPc' = [raPc EXCEPT ![r] = "loaded"]
    /\ UNCHANGED <<raClock, raStored, raWrites, wkVars, exVars, crVars, pfVars, coreVars>>

\* The throttle of requireAuth on the document the request loaded:
\* lastActivityAt is set to now and saved when it is unset or older than five
\* minutes.
RaTouch(r) ==
    /\ raPc[r] = "loaded"
    /\ LET fiveMinAgo == raClock - ThrottleMinutes
       IN  IF raRead[r] = NoActivity \/ raRead[r] < fiveMinAgo
           THEN /\ raStored' = raClock
                /\ raWrites' = Append(raWrites, raClock)
           ELSE UNCHANGED <<raStored, raWrites>>
    /\ raPc' = [raPc EXCEPT ![r] = "done"]
    /\ UNCHANGED <<raClock, raRead, wkVars, exVars, crVars, pfVars, coreVars>>

RaLoads == \E r \in AuthCalls : RaLoad(r)

RaTouches == \E r \in AuthCalls : RaTouch(r)

\* A minute passes.
RaTick ==
    /\ raClock < MaxAuthClock
    /\ raClock' = raClock + 1
    /\ UNCHANGED <<raStored, raPc, raRead, raWrites, wkVars, exVars, crVars, pfVars, coreVars>>

ActivityNext == RaLoads \/ RaTouches \/ RaTick

InitActivity ==
    /\ raClock = 0
    /\ raStored \in {NoActivity, 0}
    /\ raPc = [r \in AuthCalls |-> "start"]
    /\ raRead = [r \in AuthCalls |-> NoActivity]
    /\ raWrites = <<>>
    /\ WkIdle
    /\ ExIdle /\ CrIdle /\ PfIdle
    /\ GdIdle /\ UsIdle /\ SnIdle /\ ScIdle
    /\ SvIdle
    /\ EwIdle
    /\ RqIdle

SpecActivity == InitActivity /\ [][ActivityNext]_vars

\* C32: two writes of the lastActivityAt of a portal made by requireAuth are at
\* least five minutes apart, also when requests of the portal overlap.
C32_WritesFiveMinutesApart ==
    \A i, j \in 1..Len(raWrites) : i < j => raWrites[j] - raWrites[i] >= ThrottleMinutes

(***************************************************************************)
(* Turns of the formula loop (SpecPasses)                                  *)
(***************************************************************************)
MaxNesting == 52

\* depth calls of one function around an argument: upper(upper(...(x)...)).
RECURSIVE Nested(_, _)
Nested(name, depth) ==
    IF depth = 0 THEN <<"x">>
    ELSE name \o <<"(">> \o Nested(name, depth - 1) \o <<")">>

NestedCases == [name : {<<"u", "p", "p", "e", "r">>, <<"U", "p", "p", "e", "r">>}, depth : 0..MaxNesting]

RunFormulaLoop ==
    /\ pfPc = "passes"
    /\ pfOut' = FormulaRun(Nested(pfIn.name, pfIn.depth), 0, 0)
    /\ pfPc' = "done"
    /\ UNCHANGED <<pfIn, exVars, crVars, baseVars>>

InitPasses ==
    /\ pfPc = "passes"
    /\ pfIn \in NestedCases
    /\ pfOut = <<>>
    /\ ExIdle /\ CrIdle /\ EndIdle
    /\ GdIdle /\ UsIdle /\ SnIdle /\ ScIdle
    /\ SvIdle
    /\ EwIdle
    /\ RqIdle

SpecPasses == InitPasses /\ [][RunFormulaLoop]_vars

\* C33: processFormulaFunctions ends after at most 50 turns of its loop, and
\* it ends at the first turn that leaves the text unchanged: no turn follows
\* one that changed nothing, and a loop that made fewer than 50 turns ended on
\* a text that no pass rewrites.
C33_AtMostFiftyPasses ==
    pfPc = "done" =>
        /\ pfOut.turns <= maxIterations
        /\ pfOut.unchanged <= 1
        /\ pfOut.turns = (IF pfIn.depth + 1 <= maxIterations THEN pfIn.depth + 1
                          ELSE maxIterations)
        /\ pfOut.unchanged = 1 => ApplyPasses(pfOut.result, 1) = pfOut.result

\* A formula nested deeper than the loop can reduce: the loop stopped at the
\* cap with calls left in the text.
C33_Witness ==
    /\ pfPc = "done"
    /\ pfIn.depth > maxIterations
    /\ pfOut.turns = maxIterations
    /\ ApplyPasses(pfOut.result, 1) # pfOut.result

(***************************************************************************)
(* Which properties the path extractors read (SpecOwn)                     *)
(***************************************************************************)

\* The `current[key]` / `value[propName]` reads of one run of the loop shared by
\* getValueByPath and getNestedValue, in order: the key and whether it is an
\* own property of the value it is read from, comes from its prototype chain,
\* or does not exist.
ReadFrom(value, key) ==
    IF hasOwnProperty(value, key) THEN "own"
    ELSE IF PropertyOf(value, key) # Undefined THEN "prototype"
    ELSE "none"

RECURSIVE PathReads(_, _, _)
PathReads(current, parts, blocked) ==
    IF parts = <<>> \/ current.type = "undefined" THEN <<>>
    ELSE LET part == Head(parts)
             arrayMatch == ArrayMatch(part)
         IN  IF arrayMatch.ok
             THEN IF arrayMatch.key \in blocked THEN <<>>
                  ELSE LET next == PropertyOf(current, arrayMatch.key)
                       IN  <<[key |-> arrayMatch.key, from |-> ReadFrom(current, arrayMatch.key)]>>
                           \o (IF next.type = "array"
                               THEN PathReads(ItemAt(next, arrayMatch.index), Tail(parts), blocked)
                               ELSE <<>>)
             ELSE IF part \in blocked \/ ~hasOwnProperty(current, part) THEN <<>>
             ELSE <<[key |-> part, from |-> ReadFrom(current, part)]>> \o PathReads(PropertyOf(current, part), Tail(parts), blocked)

\* Request data whose objects have own keys named like the blocked ones, as
\* JSON.parse makes them.
OwnData ==
    {Obj((<<"u", "s", "e", "r">> :> Obj((<<"n", "a", "m", "e">> :> Str(<<"A", "l">>)) @@ (<<"c", "o", "n", "s", "t", "r", "u", "c", "t", "o", "r">> :> Arr(<<Str(<<"u">>)>>))))
         @@ (<<"i", "t", "e", "m", "s">> :> Arr(<<Obj((<<"n", "a", "m", "e">> :> Str(<<"i">>)) @@ (<<"p", "r", "o", "t", "o", "t", "y", "p", "e">> :> Arr(<<Str(<<"p">>), Str(<<"q">>)>>)))>>))
         @@ (<<"c", "o", "n", "s", "t", "r", "u", "c", "t", "o", "r">> :> Arr(<<Str(<<"c">>)>>))
         @@ (<<"_", "_", "p", "r", "o", "t", "o", "_", "_">> :> Arr(<<Obj(<<"n", "a", "m", "e">> :> Str(<<"o">>))>>))
         @@ (<<"p", "r", "o", "t", "o", "t", "y", "p", "e">> :> Obj(<<"n", "a", "m", "e">> :> Str(<<"z">>)))),
     Obj((<<"u", "s", "e", "r">> :> Str(<<"a", "d", "a">>)) @@ (<<"i", "t", "e", "m", "s">> :> Arr(<<Arr(<<Num(7)>>)>>)) @@ (<<"n", "a", "m", "e">> :> Arr(<<Str(<<"n">>)>>)))}

OwnSegments ==
    {<<"u", "s", "e", "r">>, <<"n", "a", "m", "e">>, <<"i", "t", "e", "m", "s", "[", "0", "]">>, <<"n", "a", "m", "e", "[", "0", "]">>, <<"c", "o", "n", "s", "t", "r", "u", "c", "t", "o", "r">>, <<"_", "_", "p", "r", "o", "t", "o", "_", "_">>, <<"p", "r", "o", "t", "o", "t", "y", "p", "e">>,
     <<"c", "o", "n", "s", "t", "r", "u", "c", "t", "o", "r", "[", "0", "]">>, <<"_", "_", "p", "r", "o", "t", "o", "_", "_", "[", "0", "]">>, <<"p", "r", "o", "t", "o", "t", "y", "p", "e", "[", "1", "]">>, <<"t", "o", "S", "t", "r", "i", "n", "g">>, <<"t", "o", "S", "t", "r", "i", "n", "g", "[", "0", "]">>, <<"v", "a", "l", "u", "e", "O", "f", "[", "0", "]">>}

MaxSegments == 2

OwnPaths == {JoinWith(parts, <<".">>) : parts \in UNION {[1..n -> OwnSegments] : n \in 1..MaxSegments}}

OwnCases == [data : OwnData, path : OwnPaths, extractor : {"getValueByPath", "getNestedValue"}]

ResolvePath ==
    /\ pfPc = "own"
    /\ pfOut' = IF pfIn.extractor = "getValueByPath"
                THEN [value |-> getValueByPathText(pfIn.data, pfIn.path),
                      reads |-> PathReads(pfIn.data, SplitOn(pfIn.path, "."), BLOCKED_KEY_TEXTS)]
                ELSE [value |-> getNestedValue(pfIn.data, pfIn.path),
                      reads |-> PathReads(pfIn.data, SplitOn(pfIn.path, "."), BLOCKED_PATH_KEYS)]
    /\ pfPc' = "done"
    /\ UNCHANGED <<pfIn, exVars, crVars, baseVars>>

InitOwn ==
    /\ pfPc = "own"
    /\ pfIn \in OwnCases
    /\ pfOut = Undefined
    /\ ExIdle /\ CrIdle /\ EndIdle
    /\ GdIdle /\ UsIdle /\ SnIdle /\ ScIdle
    /\ SvIdle
    /\ EwIdle
    /\ RqIdle

SpecOwn == InitOwn /\ [][ResolvePath]_vars

\* The names no path may traverse.
UnsafeNames == {<<"_", "_", "p", "r", "o", "t", "o", "_", "_">>, <<"c", "o", "n", "s", "t", "r", "u", "c", "t", "o", "r">>, <<"p", "r", "o", "t", "o", "t", "y", "p", "e">>}

\* The path has a segment named by one of them, alone or with an array index.
HasUnsafeSegment(path) ==
    LET parts == SplitOn(path, ".")
    IN  \E i \in 1..Len(parts) :
            \/ parts[i] \in UnsafeNames
            \/ ArrayMatch(parts[i]).ok /\ ArrayMatch(parts[i]).key \in UnsafeNames

\* A path with a segment named __proto__, constructor or prototype resolves to
\* nothing.
UnsafePathsEmpty ==
    (pfPc = "done" /\ HasUnsafeSegment(pfIn.path)) => pfOut.value = NoValue(pfIn.extractor)

\* C34: getValueByPath and getNestedValue return empty for every path with a
\* segment named __proto__, constructor or prototype, with or without an array
\* index, and no property they read comes from the prototype chain of the
\* value it is read from.
C34_UnsafeEmptyOwnOnly ==
    pfPc = "done" =>
        /\ HasUnsafeSegment(pfIn.path) => pfOut.value = NoValue(pfIn.extractor)
        /\ \A i \in 1..Len(pfOut.reads) : pfOut.reads[i].from # "prototype"

(***************************************************************************)
(* The sandbox worker: console output and timers (SpecWorker)              *)
(***************************************************************************)

MAX_CONSOLE_LINES == 100

MaxLogCalls == 102

MaxTimers == 2

\* clearAllTimers() that empties the set and cancels nothing.
clearAllTimers_SetOnly(timers, active) == [timers |-> timers, active |-> {}]

\* addConsoleEntry(level, args)
addConsoleEntry(consoleOutput, level, message) ==
    IF Len(consoleOutput) < MAX_CONSOLE_LINES
    THEN Append(consoleOutput, [level |-> level, message |-> message])
    ELSE consoleOutput

\* clearAllTimers(): clearTimeout for every id of activeTimers, then
\* activeTimers.clear().
clearAllTimers(timers, active) ==
    [timers |-> [id \in DOMAIN timers |-> IF id \in active /\ timers[id] = "pending" THEN "cancelled" ELSE timers[id]],
     active |-> {}]

\* The timers that can still fire.
PendingTimers(timers) == {id \in DOMAIN timers : timers[id] = "pending"}

\* User code runs while the worker lives: its main function until the result is
\* posted, and what it left detached (promise continuations, callbacks of
\* timers made since) until the host terminates the worker.
UserCodeRuns == wkPc \in {"run", "posted"}

\* console.log / info / warn / error of the sandbox.  The message stands for
\* the ordinal of the call.
WkConsole ==
    /\ UserCodeRuns
    /\ wkCalls < MaxLogCalls
    /\ wkCalls' = wkCalls + 1
    /\ wkConsole' = addConsoleEntry(wkConsole, "log", wkCalls + 1)
    /\ UNCHANGED <<wkPc, wkTimers, wkActive, wkMessage, raVars, exVars, crVars, pfVars, coreVars>>

\* setTimeout of the sandbox: a host timer is made and its id is added to
\* activeTimers.
WkSetTimeout ==
    /\ UserCodeRuns
    /\ Len(wkTimers) < MaxTimers
    /\ wkTimers' = Append(wkTimers, "pending")
    /\ wkActive' = wkActive \cup {Len(wkTimers) + 1}
    /\ UNCHANGED <<wkPc, wkConsole, wkCalls, wkMessage, raVars, exVars, crVars, pfVars, coreVars>>

\* clearTimeout of the sandbox for an id that setTimeout returned.
WkClearTimeout ==
    /\ UserCodeRuns
    /\ \E id \in DOMAIN wkTimers :
          /\ wkActive' = wkActive \ {id}
          /\ wkTimers' = [wkTimers EXCEPT ![id] = IF @ = "pending" THEN "cancelled" ELSE @]
          /\ <<wkActive', wkTimers'>> # <<wkActive, wkTimers>>
    /\ UNCHANGED <<wkPc, wkConsole, wkCalls, wkMessage, raVars, exVars, crVars, pfVars, coreVars>>

\* A pending timer fires: its callback is user code (the steps above).  The id
\* stays in activeTimers.
WkTimerFires ==
    /\ UserCodeRuns
    /\ \E id \in PendingTimers(wkTimers) : wkTimers' = [wkTimers EXCEPT ![id] = "fired"]
    /\ UNCHANGED <<wkPc, wkConsole, wkCalls, wkActive, wkMessage, raVars, exVars, crVars, pfVars, coreVars>>

\* The result is posted: clearAllTimers() and parentPort.postMessage in one
\* turn of the event loop.  The message is kept with what was true of the
\* timers when it was posted.
WkPost(status) ==
    LET cleared == clearAllTimers(wkTimers, wkActive)
    IN  /\ wkTimers' = cleared.timers
        /\ wkActive' = cleared.active
        /\ wkMessage' = [status |-> status,
                         consoleOutput |-> wkConsole,
                         pending |-> PendingTimers(cleared.timers),
                         active |-> cleared.active]
        /\ wkPc' = "posted"
        /\ UNCHANGED <<wkConsole, wkCalls, raVars, exVars, crVars, pfVars, coreVars>>

\* The promise of the user code resolved.
WkSucceed ==
    /\ wkPc = "run"
    /\ WkPost("success")

\* The user code threw or the script timed out (or posting the success threw):
\* the catch block.
WkFail ==
    /\ wkPc = "run"
    /\ \E status \in {"error", "timeout"} : WkPost(status)

\* The host terminates the worker: on its message, or when the host timer
\* expires before any message.
WkTerminate ==
    /\ UserCodeRuns
    /\ wkPc' = "terminated"
    /\ UNCHANGED <<wkConsole, wkCalls, wkTimers, wkActive, wkMessage, raVars, exVars, crVars, pfVars, coreVars>>

WorkerNext ==
    \/ WkConsole
    \/ WkSetTimeout
    \/ WkClearTimeout
    \/ WkTimerFires
    \/ WkSucceed
    \/ WkFail
    \/ WkTerminate

InitWorker ==
    /\ wkPc = "run"
    /\ wkConsole = <<>>
    /\ wkCalls = 0
    /\ wkTimers = <<>>
    /\ wkActive = {}
    /\ wkMessage = [status |-> "none"]
    /\ RaIdle
    /\ ExIdle /\ CrIdle /\ PfIdle
    /\ GdIdle /\ UsIdle /\ SnIdle /\ ScIdle
    /\ SvIdle
    /\ EwIdle
    /\ RqIdle

SpecWorker == InitWorker /\ [][WorkerNext]_vars

\* C35: the console output never holds more than 100 entries, and when the
\* worker posts its result (success, error or timeout) no timer made through
\* the sandbox setTimeout can still fire and the active-timer set is empty.
C35_ConsoleCappedTimersCleared ==
    /\ Len(wkConsole) <= MAX_CONSOLE_LINES
    /\ wkMessage.status # "none" =>
          /\ Len(wkMessage.consoleOutput) <= MAX_CONSOLE_LINES
          /\ wkMessage.pending = {}
          /\ wkMessage.active = {}

\* More than 100 console calls were made, the user code made two timers that
\* never fired, and the error was posted with 100 entries.
C35_Witness ==
    /\ wkMessage.status = "error"
    /\ wkCalls > MAX_CONSOLE_LINES
    /\ Len(wkMessage.consoleOutput) = MAX_CONSOLE_LINES
    /\ Len(wkTimers) = 2
    /\ wkTimers[1] = "cancelled" /\ wkTimers[2] = "cancelled"
    /\ wkPc = "posted"

(***************************************************************************)
(* executeCode: the first event settles the promise                        *)
(***************************************************************************)

\* What each listener passes to resolve() for the event it is given.
OutcomeOf(event) ==
    IF event.type = "message" THEN event.result
    ELSE IF event.type = "error" THEN ErrorResult(event.message)
    ELSE ExitResult(event.exitCode)

\* The step that resolves the promise is the delivery of the oldest queued
\* event or the run of the due timer; it resolves with that event's outcome
\* and, unless the event is the worker's exit, the worker is stopped.
FirstEventResolves ==
    \/ /\ exInbox # <<>>
       /\ exInbox' = Tail(exInbox)
       /\ exHandled' = Head(exInbox).type
       /\ exResult' = OutcomeOf(Head(exInbox))
       /\ Head(exInbox).type # "exit" => exWorker' \in {"terminated", "exited"}
    \/ /\ exInbox' = exInbox
       /\ TimerDue(exClock, exTimeout)
       /\ exHandled' = "timer"
       /\ exResult' = TimeoutResult(exTimeout)
       /\ exWorker' \in {"terminated", "exited"}

\* C36: the promise of executeCode is resolved once, with the outcome of the
\* first of the four events (worker message, error, exit, host timer) that the
\* host handles; events after it change nothing, the host timer is cleared, and
\* the worker is terminated when a message, an error or the timer resolved it.
C36_FirstEventWins ==
    /\ [][/\ (~exResolved /\ exResolved') => (FirstEventResolves /\ ~exListening')
          /\ exResolved => (exResolved' /\ exResult' = exResult /\ exHandled' = exHandled)]_vars
    /\ [](exResolved => /\ ~exListening
                        /\ exHandled \in {"message", "error", "exit", "timer"}
                        /\ exHandled \in {"message", "error", "timer"} =>
                              exWorker \in {"terminated", "exited"})

\* The worker's message resolved the call with success while the exit of the
\* worker is still queued behind it.
C36_Witness ==
    /\ exResolved
    /\ exHandled = "message"
    /\ exResult.success
    /\ exInbox # <<>>
    /\ Head(exInbox).type = "exit"

(***************************************************************************)
(* Daily usage counters: kinds against statuses                            *)
(***************************************************************************)

\* The counter fields of the Usage schema.
UsageCounterFields ==
    {"webhookExecutions", "codeExecutions", "formatExecutions",
     "successCount", "errorCount", "timeoutCount"}

\* The number of recorded calls whose status is one of the given ones.
CallsWithStatus(statuses) == Cardinality({i \in 1..Len(usCalls) : usCalls[i].status \in statuses})

\* C37: in every state of a daily usage counter written by recordExecution
\* webhookExecutions + codeExecutions + formatExecutions = successCount +
\* errorCount + timeoutCount (a field not yet written counts 0), and a status
\* outside success, error and timeout is counted as an error and makes no
\* other field.
C37_KindsEqualStatuses ==
    Len(usCalls) >= 1 =>
        /\ IfNull(usDoc.webhookExecutions, 0) + IfNull(usDoc.codeExecutions, 0)
              + IfNull(usDoc.formatExecutions, 0)
           = IfNull(usDoc.successCount, 0) + IfNull(usDoc.errorCount, 0)
              + IfNull(usDoc.timeoutCount, 0)
        /\ DOMAIN usDoc = DOMAIN UpsertedUsage
        /\ IfNull(usDoc.errorCount, 0) = CallsWithStatus({"error", "cancelled"})
        /\ IfNull(usDoc.successCount, 0) = CallsWithStatus({"success"})
        /\ IfNull(usDoc.timeoutCount, 0) = CallsWithStatus({"timeout"})

\* Three calls were recorded, one per kind, two of them with a status that is
\* not allowed.
C37_Witness ==
    /\ Len(usCalls) = 3
    /\ {usCalls[i].actionType : i \in 1..3} = {"webhook", "code", "format"}
    /\ usCalls[1].status = "cancelled"
    /\ usCalls[2].status = "success"
    /\ usCalls[3].status = "cancelled"
    /\ usDoc.errorCount = 2
    /\ usDoc.successCount = 1
    /\ usDoc.timeoutCount = Absent

(***************************************************************************)
(* Status fields of the code action response (SpecFields)                  *)
(***************************************************************************)

JsBool(b) == [type |-> "boolean", text |-> IF b THEN <<"t", "r", "u", "e">> ELSE <<"f", "a", "l", "s", "e">>]

\* { ...base, ...over }: the properties of `over` replace those of `base`.
Spread(base, over) ==
    [k \in DOMAIN base \cup DOMAIN over |-> IF k \in DOMAIN over THEN over[k] ELSE base[k]]

\* Property names user code can set on `output`.
FieldKeys == {"a", "b", "hubhacks_success", "hubhacks_error"}

FieldValues == {Str(<<"x">>), Num(1), JsBool(FALSE)}

\* The `output` objects a user source can leave.
UserOutputs == UNION {[keys -> FieldValues] : keys \in SUBSET FieldKeys}

\* The results executeCode resolves with: the worker's success message carries
\* the output object; its error and timeout messages and the host's own
\* results carry none.
ExecutionResults ==
    {[success |-> TRUE, status |-> "success", output |-> o, errorMessage |-> Undefined] : o \in UserOutputs}
    \cup {[success |-> FALSE, status |-> s, output |-> Undefined, errorMessage |-> Str(<<"b", "o", "o", "m">>)] :
            s \in {"error", "timeout"}}

\* outputFields of the code handler: hubhacks_success, then result.output || {}
\* spread over it, then hubhacks_error for a failed result.
SpreadOutputFields(result) ==
    LET spread == Spread("hubhacks_success" :> JsBool(result.success),
                         IF result.output = Undefined THEN <<>> ELSE result.output)
    IN  IF ~result.success
        THEN Spread(spread, "hubhacks_error" :> result.errorMessage)
        ELSE spread

BuildOutputFields ==
    /\ pfPc = "fields"
    /\ pfOut' = SpreadOutputFields(pfIn)
    /\ pfPc' = "done"
    /\ UNCHANGED <<pfIn, exVars, crVars, baseVars>>

InitFields ==
    /\ pfPc = "fields"
    /\ pfIn \in ExecutionResults
    /\ pfOut = <<>>
    /\ ExIdle /\ CrIdle /\ EndIdle
    /\ GdIdle /\ UsIdle /\ SnIdle /\ ScIdle
    /\ SvIdle
    /\ EwIdle
    /\ RqIdle

SpecFields == InitFields /\ [][BuildOutputFields]_vars

\* C38: hubhacks_success of a code action response is the success flag of the
\* execution result and hubhacks_error is set by the handler alone (the error
\* message of a failed result, absent otherwise), whatever keys the user code
\* put on its output, hubhacks_success and hubhacks_error included.
C38_StatusFieldsKept ==
    pfPc = "done" =>
        /\ pfOut["hubhacks_success"] = JsBool(pfIn.success)
        /\ IF pfIn.success THEN "hubhacks_error" \notin DOMAIN pfOut
           ELSE pfOut["hubhacks_error"] = pfIn.errorMessage

(***************************************************************************)
(* The response of one request and its size limit (SpecResponse)           *)
(***************************************************************************)

\* serialized.length above which the response data is cut, line 840.
ResponseDataLimit == 100000

\* A text written as runs of one character, so that a text of 200 000
\* characters stays small.
Run(c, n) == [char |-> c, count |-> n]

RunsOf(text) == [i \in 1..Len(text) |-> Run(text[i], 1)]

\* text.length
RECURSIVE RunsLength(_)
RunsLength(runs) == IF runs = <<>> THEN 0 ELSE Head(runs).count + RunsLength(Tail(runs))

\* text.slice(0, n)
RECURSIVE SliceRuns(_, _)
SliceRuns(runs, n) ==
    IF runs = <<>> \/ n <= 0 THEN <<>>
    ELSE IF Head(runs).count >= n THEN <<Run(Head(runs).char, n)>>
    ELSE <<Head(runs)>> \o SliceRuns(Tail(runs), n - Head(runs).count)

\* A string value of n times the character c.
LongStr(c, n) == [type |-> "string", runs |-> IF n = 0 THEN <<>> ELSE <<Run(c, n)>>]

\* A JSON null: typeof null is 'object'.
JsonNull == [type |-> "null"]

RECURSIVE JoinRuns(_, _)
JoinRuns(parts, sep) ==
    IF parts = <<>> THEN <<>>
    ELSE IF Len(parts) = 1 THEN parts[1]
    ELSE parts[1] \o <<Run(sep, 1)>> \o JoinRuns(Tail(parts), sep)

\* JSON.stringify(responseData) for strings without characters to escape.
RECURSIVE JSONStringifyRuns(_)
JSONStringifyRuns(value) ==
    CASE value.type = "string" -> <<Run("\"", 1)>> \o value.runs \o <<Run("\"", 1)>>
      [] value.type = "array" ->
            <<Run("[", 1)>> \o JoinRuns([i \in 1..Len(value.items) |-> JSONStringifyRuns(value.items[i])], ",")
            \o <<Run("]", 1)>>
      [] value.type = "object" ->
            LET keys == KeysOf(value.fields)
            IN  <<Run("{", 1)>>
                \o JoinRuns([i \in 1..Len(keys) |->
                                <<Run("\"", 1)>> \o RunsOf(keys[i]) \o <<Run("\"", 1), Run(":", 1)>>
                                \o JSONStringifyRuns(value.fields[keys[i]])], ",")
                \o <<Run("}", 1)>>
      [] OTHER -> RunsOf(<<"n", "u", "l", "l">>)

\* One pass over a JSON text: how many brackets are open at its end and
\* whether a string is.
RECURSIVE ScanJSON(_, _, _)
ScanJSON(runs, depth, inString) ==
    IF runs = <<>> THEN [depth |-> depth, inString |-> inString]
    ELSE LET r == Head(runs)
         IN  IF r.char = "\""
             THEN ScanJSON(Tail(runs), depth, IF r.count % 2 = 1 THEN ~inString ELSE inString)
             ELSE IF inString THEN ScanJSON(Tail(runs), depth, inString)
             ELSE IF r.char \in {"{", "["} THEN ScanJSON(Tail(runs), depth + r.count, inString)
             ELSE IF r.char \in {"}", "]"} THEN ScanJSON(Tail(runs), depth - r.count, inString)
             ELSE ScanJSON(Tail(runs), depth, inString)

\* JSON.parse(text) of a text cut out of a serialization: a SyntaxError when
\* the text ends inside a string or with a bracket open.
JSONParseRuns(runs) ==
    LET end == ScanJSON(runs, 0, FALSE)
    IN  IF end.inString
        THEN [threw |-> TRUE, message |-> <<"U", "n", "t", "e", "r", "m", "i", "n", "a", "t", "e", "d", " ", "s", "t", "r", "i", "n", "g", " ", "i", "n", " ", "J", "S", "O", "N">>]
        ELSE IF runs = <<>> \/ end.depth # 0
        THEN [threw |-> TRUE, message |-> <<"U", "n", "e", "x", "p", "e", "c", "t", "e", "d", " ", "e", "n", "d", " ", "o", "f", " ", "J", "S", "O", "N", " ", "i", "n", "p", "u", "t">>]
        ELSE [threw |-> FALSE, message |-> <<>>]

\* The catch block, lines 856-877, for an error without a code.
CaughtResult(message) ==
    IF Includes(message, <<"t", "i", "m", "e", "o", "u", "t">>)
    THEN [success |-> FALSE, status |-> "timeout", httpStatusCode |-> 0, data |-> "none"]
    ELSE [success |-> FALSE, status |-> "error", httpStatusCode |-> 0, data |-> "none"]

\* Lines 819-855: what executeSingleRequest returns for a response that axios
\* delivered (validateStatus accepts every status).
ResponseResult(response) ==
    LET responseData == response.data
        isSuccess == response.status >= 200 /\ response.status < 300
        serialized == JSONStringifyRuns(responseData)
        tooLong == responseData.type \in {"object", "array", "null"}
                   /\ RunsLength(serialized) > ResponseDataLimit
        limited == JSONParseRuns(SliceRuns(serialized, ResponseDataLimit))
    IN  IF tooLong /\ limited.threw THEN CaughtResult(limited.message)
        ELSE [success |-> isSuccess, status |-> IF isSuccess THEN "success" ELSE "error",
              httpStatusCode |-> response.status,
              data |-> IF tooLong THEN "limited" ELSE "whole"]

\* Lengths of the string in the bodies: short ones, and those that bring the
\* serialization of {"a":"x...x"} (8 + n characters) to the limit and past it.
BodyLengths == {0, 5, 99991, 99992, 99993, 99994, 200000}

ResponseBodies ==
    {Obj(<<"a">> :> LongStr("x", n)) : n \in BodyLengths}
    \cup {Arr(<<LongStr("y", n), LongStr("z", 3)>>) : n \in BodyLengths}
    \cup {LongStr("x", n) : n \in BodyLengths}
    \cup {JsonNull}

ResponseStatuses == {200, 201, 204, 299, 301, 404, 500}

UpstreamResponses == [status : ResponseStatuses, data : ResponseBodies]

ReceiveResponse ==
    /\ pfPc = "response"
    /\ pfOut' = ResponseResult(pfIn)
    /\ pfPc' = "done"
    /\ UNCHANGED <<pfIn, exVars, crVars, baseVars>>

InitResponse ==
    /\ pfPc = "response"
    /\ pfIn \in UpstreamResponses
    /\ pfOut = <<>>
    /\ ExIdle /\ CrIdle /\ EndIdle
    /\ GdIdle /\ UsIdle /\ SnIdle /\ ScIdle
    /\ SvIdle
    /\ EwIdle
    /\ RqIdle

SpecResponse == InitResponse /\ [][ReceiveResponse]_vars

\* C39: an attempt whose upstream response has a 2xx status is reported with
\* success = true and that status, whatever the size of the body, a JSON body
\* whose serialization is longer than 100 000 characters included.
C39_TwoHundredIsSuccess ==
    (pfPc = "done" /\ pfIn.status >= 200 /\ pfIn.status < 300) =>
        /\ pfOut.success
        /\ pfOut.status = "success"
        /\ pfOut.httpStatusCode = pfIn.status

(***************************************************************************)
(* Attempts against the configured number of retries (Spec)                *)
(***************************************************************************)

\* The request asks for retries and names a number of them, m >= 0.
RetriesConfigured ==
    /\ pc \in {"webhook", "done"}
    /\ inputFields.hasUrl
    /\ RetryInput
    /\ inputFields.maxRetries # <<>>
    /\ ~ParseInt(inputFields.maxRetries).nan
    /\ ParseInt(inputFields.maxRetries).val >= 0

\* C40: for a webhook action with retry enabled and a configured max-retries
\* m >= 0 no more than m + 1 HTTP attempts are made (exactly one for m = 0),
\* and the retries_used of the response is the number of attempts minus one.
C40_AttemptsWithinConfigured ==
    RetriesConfigured =>
        LET m == ParseInt(inputFields.maxRetries).val
        IN  /\ AttemptsMade <= m + 1
            /\ (Dispatched /\ m = 0) => AttemptsMade = 1
            /\ (Dispatched /\ pc = "done" /\ res.outputFields.hubhacks_retries_used # Absent) =>
                  res.outputFields.hubhacks_retries_used = AttemptsMade - 1
====
